---- MODULE Spec2Model ----
(***************************************************************************)
(* Model of the Micheline Parameters envelope of tzgo                      *)
(* (micheline/parameters.go): entrypoint routing, binary and JSON codecs,  *)
(* and of the typed Value and its tree walker (micheline/value.go).        *)
(*                                                                         *)
(* Strings are modelled as sequences: an entrypoint name is the sequence   *)
(* of its bytes, a branch ("/L/R") is the sequence of its characters.      *)
(***************************************************************************)
EXTENDS Integers, Sequences, FiniteSets, TLC

VARIABLES
    p,      \* the receiver: a Parameters [Entrypoint, Value], or a Value
            \* [Type, Value, Render, mapped]
    old,    \* the receiver as it was before the last operation
    typ,    \* the script's parameter type handed to MapEntrypoint
    op,     \* the operation that ran last ("init" before any)
    arg,    \* the input of the last operation (bytes / JSON document)
    ret     \* what the last operation returned

vars == <<p, old, typ, op, arg, ret>>

(***************************************************************************)
(* Bounds                                                                  *)
(***************************************************************************)
\* deepest D_LEFT/D_RIGHT wrapping of a call value
MaxWrap == 3
\* length of the longest entrypoint name handed to the binary encoder
LongNameLen == 256

(***************************************************************************)
(* Strings                                                                 *)
(***************************************************************************)
\* well-known entrypoint names as byte strings
N_empty == <<>>
N_default == <<100, 101, 102, 97, 117, 108, 116>>
N_root == <<114, 111, 111, 116>>
N_do == <<100, 111>>
N_set_delegate == <<115, 101, 116, 95, 100, 101, 108, 101, 103, 97, 116, 101>>
N_remove_delegate == <<114, 101, 109, 111, 118, 101, 95, 100, 101, 108, 101, 103, 97, 116, 101>>
N_mint == <<109, 105, 110, 116>>
N_a == <<97>>
N_b == <<98>>
N_c == <<99>>
N_zz == <<122, 122>>

HasPrefix(s, pre) ==
    /\ Len(pre) <= Len(s)
    /\ SubSeq(s, 1, Len(pre)) = pre

HasSuffix(s, suf) ==
    /\ Len(suf) <= Len(s)
    /\ SubSeq(s, Len(s) - Len(suf) + 1, Len(s)) = suf

TrimPrefix(s, pre) ==
    IF HasPrefix(s, pre) THEN SubSeq(s, Len(pre) + 1, Len(s)) ELSE s

TrimSuffix(s, suf) ==
    IF HasSuffix(s, suf) THEN SubSeq(s, 1, Len(s) - Len(suf)) ELSE s

\* strings.Split(s, sep) for a one-character separator: the pieces between
\* separators, so the empty string splits into one empty piece
RECURSIVE SplitAcc(_, _, _)
SplitAcc(s, sep, cur) ==
    IF s = <<>> THEN <<cur>>
    ELSE IF Head(s) = sep THEN <<cur>> \o SplitAcc(Tail(s), sep, <<>>)
    ELSE SplitAcc(Tail(s), sep, Append(cur, Head(s)))

Split(s, sep) == SplitAcc(s, sep, <<>>)

(***************************************************************************)
(* Prim                                                                    *)
(***************************************************************************)
\* OpCode is a byte: the wire tags of the opcodes used here
K_PARAMETER == 0
D_ELT == 4
D_LEFT == 5
D_NONE == 6
D_PAIR == 7
D_RIGHT == 8
D_SOME == 9
D_UNIT == 11
T_OR == 100
T_UNIT == 108

\* Int is <<>> for a nil big integer and <<n>> otherwise; Str is the payload
\* of a string or bytes node; Anno is the list of annotations; WasPacked is
\* set on nodes that were unpacked from a byte string
MkPrim(t, oc, args, int, str) ==
    [Type |-> t, OpCode |-> oc, Args |-> args, Int |-> int, Str |-> str,
     Anno |-> <<>>, WasPacked |-> FALSE]

WithAnno(node, annos) == [node EXCEPT !.Anno = annos]

\* Prim{}: the zero value (PrimInt is shape 0, opcode 0 is K_PARAMETER)
ZeroPrim == MkPrim("PrimInt", K_PARAMETER, <<>>, <<>>, <<>>)

NewInt(n) == MkPrim("PrimInt", K_PARAMETER, <<>>, <<n>>, <<>>)
NewString(s) == MkPrim("PrimString", K_PARAMETER, <<>>, <<>>, s)
NewBytes(s) == MkPrim("PrimBytes", K_PARAMETER, <<>>, <<>>, s)
NewSeq(args) == MkPrim("PrimSequence", K_PARAMETER, args, <<>>, <<>>)
NewCode0(oc) == MkPrim("PrimNullary", oc, <<>>, <<>>, <<>>)
NewCode1(oc, a) == MkPrim("PrimUnary", oc, <<a>>, <<>>, <<>>)
NewCode2(oc, a, b) == MkPrim("PrimBinary", oc, <<a, b>>, <<>>, <<>>)

Unit == NewCode0(D_UNIT)
Left(v) == NewCode1(D_LEFT, v)
Right(v) == NewCode1(D_RIGHT, v)

\* a Prim is valid unless it is the zero value
IsValid(node) == node.Type # "PrimInt" \/ node.Int # <<>>

(***************************************************************************)
(* Type and Entrypoints                                                    *)
(***************************************************************************)
\* a type node: Anno is the field annotation's name, <<>> if none
MkType(oc, anno, args) ==
    [OpCode |-> oc, Anno |-> anno, Args |-> args, WasPacked |-> FALSE]

ZeroType == MkType(K_PARAMETER, <<>>, <<>>)

Slash == "/"
BranchL == <<Slash, "L">>
BranchR == <<Slash, "R">>

\* all annotation names below (and at) a type node
RECURSIVE AnnosOf(_)
AnnosOf(t) ==
    (IF t.Anno = <<>> THEN {} ELSE {t.Anno})
        \cup UNION {AnnosOf(t.Args[i]) : i \in 1..Len(t.Args)}

\* number of annotated nodes below (and at) a type node
RECURSIVE AnnoCount(_)
AnnoCount(t) ==
    LET below[i \in 0..Len(t.Args)] ==
            IF i = 0 THEN 0 ELSE below[i - 1] + AnnoCount(t.Args[i])
    IN (IF t.Anno = <<>> THEN 0 ELSE 1) + below[Len(t.Args)]

\* depth-first walk of the T_OR branches; an annotated terminal branch is an
\* entrypoint under its name, the unnamed terminus of the all-left spine is
\* the implicit default entrypoint when implicit holds
RECURSIVE listEntrypoints(_, _, _, _)
listEntrypoints(node, branch, spine, implicit) ==
    IF node.OpCode = T_OR
    THEN listEntrypoints(node.Args[1], branch \o BranchL, spine, implicit)
             \o listEntrypoints(node.Args[2], branch \o BranchR, FALSE, implicit)
    ELSE IF node.Anno # <<>>
    THEN <<[Name |-> node.Anno, Branch |-> branch, Prim |-> node]>>
    ELSE IF spine /\ implicit
    THEN <<[Name |-> N_default, Branch |-> branch, Prim |-> node]>>
    ELSE <<>>

\* Type.Entrypoints: the listed entrypoints, numbered in walk order
Entrypoints(t) ==
    LET l == listEntrypoints(t, <<>>, TRUE,
                             t.Anno = <<>> /\ N_default \notin AnnosOf(t))
    IN [i \in 1..Len(l) |->
            [Id |-> i - 1, Name |-> l[i].Name, Branch |-> l[i].Branch,
             Prim |-> l[i].Prim]]

ZeroEntrypoint == [Id |-> 0, Name |-> <<>>, Branch |-> <<>>, Prim |-> ZeroType]

\* the (entrypoint, ok) pairs of the three lookups on Entrypoints
Lookup(eps, hit) ==
    IF \E i \in 1..Len(eps) : hit[i]
    THEN [ep |-> eps[CHOOSE i \in 1..Len(eps) : hit[i]], ok |-> TRUE]
    ELSE [ep |-> ZeroEntrypoint, ok |-> FALSE]

FindName(eps, name) == Lookup(eps, [i \in 1..Len(eps) |-> eps[i].Name = name])

FindBranch(eps, branch) ==
    Lookup(eps, [i \in 1..Len(eps) |-> eps[i].Branch = branch])

FindId(eps, id) == Lookup(eps, [i \in 1..Len(eps) |-> eps[i].Id = id])

\* Type.SearchEntrypointName: the branch of the T_OR branch annotated with
\* name, the empty string when there is none
RECURSIVE SearchEntrypointName(_, _, _)
SearchEntrypointName(node, name, branch) ==
    IF node.OpCode # T_OR THEN <<>>
    ELSE IF node.Args[1].Anno = name THEN branch \o BranchL
    ELSE IF node.Args[2].Anno = name THEN branch \o BranchR
    ELSE LET l == SearchEntrypointName(node.Args[1], name, branch \o BranchL)
         IN IF l # <<>> THEN l
            ELSE SearchEntrypointName(node.Args[2], name, branch \o BranchR)

(***************************************************************************)
(* Parameters: entrypoint routing                                          *)
(***************************************************************************)
\* node.Args[0]; indexing an empty argument list panics
Arg0(node) ==
    IF Len(node.Args) = 0
    THEN [panic |-> TRUE, node |-> node]
    ELSE [panic |-> FALSE, node |-> node.Args[1]]

\* Branch without the stop at the first known entrypoint
RECURSIVE BranchLoop_NoStop(_, _, _)
BranchLoop_NoStop(node, branch, eps) ==
    IF node.OpCode \notin {D_LEFT, D_RIGHT}
    THEN [panic |-> FALSE, branch |-> branch]
    ELSE LET b == branch \o (IF node.OpCode = D_LEFT THEN BranchL ELSE BranchR)
             n == Arg0(node)
         IN IF n.panic THEN [panic |-> TRUE, branch |-> b]
            ELSE BranchLoop_NoStop(n.node, b, eps)

\* the loop of Parameters.Branch
RECURSIVE BranchLoop(_, _, _)
BranchLoop(node, branch, eps) ==
    IF node.OpCode \notin {D_LEFT, D_RIGHT}
    THEN [panic |-> FALSE, branch |-> branch]
    ELSE LET b == branch \o (IF node.OpCode = D_LEFT THEN BranchL ELSE BranchR)
             n == Arg0(node)
         IN IF n.panic THEN [panic |-> TRUE, branch |-> b]
            ELSE IF FindBranch(eps, b).ok THEN [panic |-> FALSE, branch |-> b]
            ELSE BranchLoop(n.node, b, eps)

Branch(value, prefix, eps) ==
    IF ~IsValid(value)
    THEN [panic |-> FALSE, branch |-> <<>>]
    ELSE BranchLoop(value, prefix, eps)

\* the loop of Parameters.Unwrap over the pieces of the branch
RECURSIVE UnwrapLoop(_, _)
UnwrapLoop(node, parts) ==
    IF parts = <<>> THEN [panic |-> FALSE, node |-> node]
    ELSE IF ~IsValid(node) THEN [panic |-> FALSE, node |-> node]
    ELSE IF Head(parts) \in {<<"L">>, <<"R">>}
    THEN LET n == Arg0(node)
         IN IF n.panic THEN n ELSE UnwrapLoop(n.node, Tail(parts))
    ELSE UnwrapLoop(node, Tail(parts))

Unwrap(value, branch) ==
    UnwrapLoop(value,
               Split(TrimSuffix(TrimPrefix(branch, <<Slash>>), <<Slash>>), Slash))

Panicked == [ep |-> ZeroEntrypoint, prim |-> ZeroPrim, err |-> "panic"]

Routed(ep, u) ==
    IF u.panic THEN Panicked ELSE [ep |-> ep, prim |-> u.node, err |-> "nil"]

\* case "default" peeling the whole branch, the %default path included
MapDefault_FullUnwrap(value, t, eps) ==
    LET prefix == SearchEntrypointName(t, N_default, <<>>)
        b == Branch(value, prefix, eps)
        f == FindBranch(eps, b.branch)
    IN IF b.panic THEN Panicked
       ELSE IF ~f.ok
       THEN [ep |-> FindId(eps, 0).ep, prim |-> value, err |-> "nil"]
       ELSE Routed(f.ep, Unwrap(value, f.ep.Branch))

\* case "default"
MapDefault(value, t, eps) ==
    LET prefix == SearchEntrypointName(t, N_default, <<>>)
        b == Branch(value, prefix, eps)
        f == FindBranch(eps, b.branch)
    IN IF b.panic THEN Panicked
       ELSE IF ~f.ok
       THEN [ep |-> FindId(eps, 0).ep, prim |-> value, err |-> "nil"]
       ELSE Routed(f.ep, Unwrap(value, TrimPrefix(f.ep.Branch, prefix)))

\* case "root", ""
MapRoot(value, eps) ==
    LET b == Branch(value, <<>>, eps)
        f == FindBranch(eps, b.branch)
        ep == IF f.ok THEN f.ep ELSE FindId(eps, 0).ep
    IN IF b.panic THEN Panicked
       ELSE Routed(ep, Unwrap(value, ep.Branch))

\* a named entrypoint falling back to the id=0 entrypoint like the other cases
MapNamed_Fallback(name, value, t, eps) ==
    LET n == FindName(eps, name)
        prefix == SearchEntrypointName(t, name, <<>>)
        b == Branch(value, prefix, eps)
        f == FindBranch(eps, b.branch)
    IN IF n.ok THEN [ep |-> n.ep, prim |-> value, err |-> "nil"]
       ELSE IF prefix = <<>>
       THEN [ep |-> n.ep, prim |-> ZeroPrim, err |-> "missing entrypoint"]
       ELSE IF b.panic THEN Panicked
       ELSE IF ~f.ok
       THEN [ep |-> FindId(eps, 0).ep, prim |-> value, err |-> "nil"]
       ELSE Routed(f.ep, Unwrap(value, TrimPrefix(f.ep.Branch, prefix)))

\* default: a named entrypoint
MapNamed(name, value, t, eps) ==
    LET n == FindName(eps, name)
        prefix == SearchEntrypointName(t, name, <<>>)
        b == Branch(value, prefix, eps)
        f == FindBranch(eps, b.branch)
    IN IF n.ok THEN [ep |-> n.ep, prim |-> value, err |-> "nil"]
       ELSE IF prefix = <<>>
       THEN [ep |-> n.ep, prim |-> ZeroPrim, err |-> "missing entrypoint"]
       ELSE IF b.panic THEN Panicked
       ELSE IF ~f.ok
       THEN [ep |-> f.ep, prim |-> ZeroPrim, err |-> "missing entrypoint"]
       ELSE Routed(f.ep, Unwrap(value, TrimPrefix(f.ep.Branch, prefix)))

MapEntrypoint(q, t) ==
    LET eps == Entrypoints(t)
    IN IF q.Entrypoint = N_default THEN MapDefault(q.Value, t, eps)
       ELSE IF q.Entrypoint \in {N_root, N_empty} THEN MapRoot(q.Value, eps)
       ELSE MapNamed(q.Entrypoint, q.Value, t, eps)

(***************************************************************************)
(* Inputs                                                                  *)
(***************************************************************************)
\* payloads: D_UNIT, an int, a pair and the zero Prim
Payloads == {Unit, NewInt(5), NewCode2(D_PAIR, Unit, NewInt(5)), ZeroPrim}

RECURSIVE Wrapped(_)
Wrapped(n) ==
    IF n = 0 THEN Payloads
    ELSE LET w == Wrapped(n - 1)
         IN Payloads \cup {Left(v) : v \in w} \cup {Right(v) : v \in w}

CallValues == Wrapped(MaxWrap)

\* parameter types: T_OR trees, two levels of T_OR below the root at most,
\* no annotation used twice
Terminals == {MkType(T_UNIT, a, <<>>) : a \in {<<>>, N_a, N_b, N_default}}

Ors(annos, ls, rs) ==
    {MkType(T_OR, a, <<l, r>>) : a \in annos, l \in ls, r \in rs}

InnerTypes == Terminals \cup Ors({<<>>, N_c, N_default}, Terminals, Terminals)

UniqueAnnos(t) == AnnoCount(t) = Cardinality(AnnosOf(t))

ParamTypes ==
    {t \in {MkType(T_UNIT, a, <<>>) : a \in {<<>>, N_root, N_default}}
           \cup Ors({<<>>, N_root}, InnerTypes, InnerTypes) : UniqueAnnos(t)}

CallNames == {N_empty, N_root, N_default, N_a, N_b, N_c, N_zz}

NoRet == [err |-> "none"]

(***************************************************************************)
(* Entrypoint routing: one MapEntrypoint call on any envelope and type     *)
(***************************************************************************)
InitEP ==
    /\ p \in [Entrypoint : CallNames, Value : CallValues]
    /\ old = p
    /\ typ \in ParamTypes
    /\ op = "init"
    /\ arg = <<>>
    /\ ret = NoRet

DoMapEntrypoint ==
    /\ op = "init"
    /\ op' = "MapEntrypoint"
    /\ ret' = MapEntrypoint(p, typ)
    /\ old' = p
    /\ UNCHANGED <<p, typ, arg>>

NextEP == DoMapEntrypoint

SpecEP == InitEP /\ [][NextEP]_vars

(***************************************************************************)
(* Binary codec of Prim                                                    *)
(***************************************************************************)
Min(a, b) == IF a < b THEN a ELSE b

\* bytes.Buffer.Next(n) and what it leaves in the buffer
Next(buf, n) == SubSeq(buf, 1, Min(n, Len(buf)))
After(buf, n) == SubSeq(buf, Min(n, Len(buf)) + 1, Len(buf))

\* big-endian u32
U32(n) ==
    <<(n \div 16777216) % 256, (n \div 65536) % 256, (n \div 256) % 256, n % 256>>

\* sizes are only compared with buffer lengths, all of them below 2^31: a
\* value of 2^31 and more is read as 2^31 - 1
Uint32(b) ==
    IF b[1] >= 128 THEN 2147483647
    ELSE b[1] * 16777216 + b[2] * 65536 + b[3] * 256 + b[4]

\* ZArith varint: continuation in bit 7, sign in bit 6 of the first byte
RECURSIVE ZTail(_)
ZTail(m) == IF m < 128 THEN <<m>> ELSE <<128 + (m % 128)>> \o ZTail(m \div 128)

Zarith(n) ==
    LET a == IF n < 0 THEN 0 - n ELSE n
        first == (a % 64) + (IF n < 0 THEN 64 ELSE 0)
    IN IF a < 64 THEN <<first>> ELSE <<first + 128>> \o ZTail(a \div 64)

RECURSIVE ZDecodeTail(_, _)
ZDecodeTail(buf, weight) ==
    IF buf = <<>> THEN [err |-> "ErrShortBuffer", val |-> 0, rest |-> buf]
    ELSE IF Head(buf) < 128
    THEN [err |-> "nil", val |-> Head(buf) * weight, rest |-> Tail(buf)]
    ELSE LET t == ZDecodeTail(Tail(buf), weight * 128)
         IN [t EXCEPT !.val = @ + (Head(buf) % 128) * weight]

ZDecode(buf) ==
    IF buf = <<>> THEN [err |-> "ErrShortBuffer", val |-> 0, rest |-> buf]
    ELSE LET b == Head(buf)
             neg == (b \div 64) % 2 = 1
             t == IF b < 128
                  THEN [err |-> "nil", val |-> 0, rest |-> Tail(buf)]
                  ELSE ZDecodeTail(Tail(buf), 64)
             a == (b % 64) + t.val
         IN [t EXCEPT !.val = IF neg THEN 0 - a ELSE a]

\* the annotation block: the annotations joined by single spaces
RECURSIVE JoinAnnos(_)
JoinAnnos(annos) ==
    IF annos = <<>> THEN <<>>
    ELSE IF Len(annos) = 1 THEN annos[1]
    ELSE annos[1] \o <<32>> \o JoinAnnos(Tail(annos))

SplitAnnos(block) == IF block = <<>> THEN <<>> ELSE Split(block, 32)

\* the shape tag on the wire
ShapeTag(node) ==
    LET anno == IF node.Anno = <<>> THEN 0 ELSE 1
    IN CASE node.Type = "PrimInt" -> 0
         [] node.Type = "PrimString" -> 1
         [] node.Type = "PrimSequence" -> 2
         [] node.Type = "PrimNullary" -> 3 + anno
         [] node.Type = "PrimUnary" -> 5 + anno
         [] node.Type = "PrimBinary" -> 7 + anno
         [] node.Type = "PrimVariadic" -> 9
         [] node.Type = "PrimBytes" -> 10

Block(bytes) == U32(Len(bytes)) \o bytes

\* Prim.EncodeBuffer for a valid tree: the bytes written
RECURSIVE EncodePrim(_)
EncodePrim(node) ==
    LET args[i \in 0..Len(node.Args)] ==
            IF i = 0 THEN <<>> ELSE args[i - 1] \o EncodePrim(node.Args[i])
        children == args[Len(node.Args)]
        annos == IF node.Anno = <<>> THEN <<>> ELSE Block(JoinAnnos(node.Anno))
    IN CASE node.Type = "PrimInt" -> <<0>> \o Zarith(node.Int[1])
         [] node.Type \in {"PrimString", "PrimBytes"} ->
                <<ShapeTag(node)>> \o Block(node.Str)
         [] node.Type = "PrimSequence" -> <<2>> \o Block(children)
         [] node.Type = "PrimVariadic" ->
                <<9, node.OpCode>> \o Block(children) \o Block(JoinAnnos(node.Anno))
         [] OTHER -> <<ShapeTag(node), node.OpCode>> \o children \o annos

RECURSIVE AllValid(_)
AllValid(node) ==
    IsValid(node) /\ \A i \in 1..Len(node.Args) : AllValid(node.Args[i])

\* Prim.EncodeBuffer: an error for a tree that holds an invalid node
EncodeBuffer(node) ==
    IF AllValid(node)
    THEN [err |-> "nil", bytes |-> EncodePrim(node)]
    ELSE [err |-> "invalid prim", bytes |-> <<>>]

DecodeErr(e) == [err |-> e, prim |-> ZeroPrim, rest |-> <<>>]

\* a u32-length-prefixed block at the head of the buffer
ReadBlock(buf) ==
    IF Len(buf) < 4 \/ Len(buf) - 4 < Uint32(Next(buf, 4))
    THEN [err |-> "ErrShortBuffer", bytes |-> <<>>, rest |-> <<>>]
    ELSE [err |-> "nil",
          bytes |-> Next(After(buf, 4), Uint32(Next(buf, 4))),
          rest |-> After(After(buf, 4), Uint32(Next(buf, 4)))]

\* the annotation block that follows an annotated shape
ReadAnnos(tag, d) ==
    IF d.err # "nil" \/ tag \notin {4, 6, 8} THEN d
    ELSE LET b == ReadBlock(d.rest)
         IN IF b.err # "nil" THEN DecodeErr(b.err)
            ELSE [err |-> "nil", prim |-> WithAnno(d.prim, SplitAnnos(b.bytes)),
                  rest |-> b.rest]

\* Prim.DecodeBuffer: one tree off the head of the buffer
RECURSIVE DecodeBuffer(_)
RECURSIVE DecodeAll(_)
DecodeBuffer(buf) ==
    IF buf = <<>> THEN DecodeErr("ErrShortBuffer")
    ELSE LET tag == Head(buf)
             r == Tail(buf)
         IN CASE tag = 0 ->
                    LET z == ZDecode(r)
                    IN IF z.err # "nil" THEN DecodeErr(z.err)
                       ELSE [err |-> "nil", prim |-> NewInt(z.val), rest |-> z.rest]
              [] tag \in {1, 10} ->
                    LET b == ReadBlock(r)
                    IN IF b.err # "nil" THEN DecodeErr(b.err)
                       ELSE [err |-> "nil",
                             prim |-> IF tag = 1 THEN NewString(b.bytes)
                                      ELSE NewBytes(b.bytes),
                             rest |-> b.rest]
              [] tag = 2 ->
                    LET b == ReadBlock(r)
                        a == DecodeAll(b.bytes)
                    IN IF b.err # "nil" THEN DecodeErr(b.err)
                       ELSE IF a.err # "nil" THEN DecodeErr(a.err)
                       ELSE [err |-> "nil", prim |-> NewSeq(a.prims), rest |-> b.rest]
              [] tag \in {3, 4} ->
                    IF r = <<>> THEN DecodeErr("ErrShortBuffer")
                    ELSE ReadAnnos(tag, [err |-> "nil", prim |-> NewCode0(Head(r)),
                                         rest |-> Tail(r)])
              [] tag \in {5, 6} ->
                    IF r = <<>> THEN DecodeErr("ErrShortBuffer")
                    ELSE LET a == DecodeBuffer(Tail(r))
                         IN IF a.err # "nil" THEN a
                            ELSE ReadAnnos(tag, [err |-> "nil",
                                                 prim |-> NewCode1(Head(r), a.prim),
                                                 rest |-> a.rest])
              [] tag \in {7, 8} ->
                    IF r = <<>> THEN DecodeErr("ErrShortBuffer")
                    ELSE LET a == DecodeBuffer(Tail(r))
                             b == DecodeBuffer(a.rest)
                         IN IF a.err # "nil" THEN a
                            ELSE IF b.err # "nil" THEN b
                            ELSE ReadAnnos(tag, [err |-> "nil",
                                                 prim |-> NewCode2(Head(r), a.prim, b.prim),
                                                 rest |-> b.rest])
              [] tag = 9 ->
                    IF r = <<>> THEN DecodeErr("ErrShortBuffer")
                    ELSE LET b == ReadBlock(Tail(r))
                             a == DecodeAll(b.bytes)
                             n == ReadBlock(b.rest)
                         IN IF b.err # "nil" THEN DecodeErr(b.err)
                            ELSE IF a.err # "nil" THEN DecodeErr(a.err)
                            ELSE IF n.err # "nil" THEN DecodeErr(n.err)
                            ELSE [err |-> "nil",
                                  prim |-> WithAnno(MkPrim("PrimVariadic", Head(r),
                                                           a.prims, <<>>, <<>>),
                                                    SplitAnnos(n.bytes)),
                                  rest |-> n.rest]
              [] OTHER -> DecodeErr("ErrInvalidTag")

DecodeAll(buf) ==
    IF buf = <<>> THEN [err |-> "nil", prims |-> <<>>]
    ELSE LET d == DecodeBuffer(buf)
             t == DecodeAll(d.rest)
         IN IF d.err # "nil" THEN [err |-> d.err, prims |-> <<>>]
            ELSE IF t.err # "nil" THEN t
            ELSE [err |-> "nil", prims |-> <<d.prim>> \o t.prims]

(***************************************************************************)
(* Parameters: binary codec                                                *)
(***************************************************************************)
\* binary.BigEndian.PutUint32(res[n:], uint32(v)) for a v below 2^32
PutUint32(res, n, v) ==
    [i \in 1..Len(res) |->
        IF i > n /\ i <= n + 4 THEN U32(v)[i - n] ELSE res[i]]

\* the entrypoint tag, with the name block for a custom name
EntrypointBytes(name) ==
    CASE name \in {N_empty, N_default} -> <<0>>
      [] name = N_root -> <<1>>
      [] name = N_do -> <<2>>
      [] name = N_set_delegate -> <<3>>
      [] name = N_remove_delegate -> <<4>>
      [] OTHER -> <<255, Len(name) % 256>> \o name

\* the data size always patched right after the two header bytes
SizeOffset_Fixed(name) == 2

\* n: where the data size goes
SizeOffset(name) ==
    IF name \in {N_empty, N_default, N_root, N_do, N_set_delegate, N_remove_delegate}
    THEN 2
    ELSE 2 + 1 + Len(name)

MarshalBinary(q) ==
    IF Len(q.Entrypoint) = 0 /\ q.Value.OpCode = D_UNIT
    THEN [err |-> "nil", out |-> <<0>>]
    ELSE LET e == EncodeBuffer(q.Value)
             res == <<1>> \o EntrypointBytes(q.Entrypoint) \o U32(0) \o e.bytes
             n == SizeOffset(q.Entrypoint)
         IN IF e.err # "nil" THEN [err |-> e.err, out |-> <<>>]
            ELSE [err |-> "nil", out |-> PutUint32(res, n, Len(res) - n - 4)]

\* the entrypoint read off the buffer that follows the first byte
ReadEntrypoint(q, buf) ==
    LET tag == Next(buf, 1)
        r == After(buf, 1)
        sz == Next(r, 1)
    IN IF Len(tag) = 0 THEN [err |-> "ErrShortBuffer", name |-> q.Entrypoint, rest |-> r]
       ELSE CASE tag[1] = 0 -> [err |-> "nil", name |-> N_default, rest |-> r]
              [] tag[1] = 1 -> [err |-> "nil", name |-> N_root, rest |-> r]
              [] tag[1] = 2 -> [err |-> "nil", name |-> N_do, rest |-> r]
              [] tag[1] = 3 -> [err |-> "nil", name |-> N_set_delegate, rest |-> r]
              [] tag[1] = 4 -> [err |-> "nil", name |-> N_remove_delegate, rest |-> r]
              [] OTHER ->
                    IF Len(sz) = 0 \/ Len(After(r, 1)) < sz[1]
                    THEN [err |-> "ErrShortBuffer", name |-> q.Entrypoint, rest |-> r]
                    ELSE [err |-> "nil", name |-> Next(After(r, 1), sz[1]),
                          rest |-> After(After(r, 1), sz[1])]

\* Parameters.UnmarshalBinary: the error and the receiver afterwards; err is
\* "panic" where the code indexes or slices out of range
UnmarshalBinary(q, data) ==
    IF Len(data) = 1 /\ data[1] = 0
    THEN [err |-> "nil", p |-> [Entrypoint |-> N_default, Value |-> Unit]]
    ELSE IF Len(data) = 0 THEN [err |-> "panic", p |-> q]
    ELSE LET e == ReadEntrypoint(q, Tail(data))
             named == [q EXCEPT !.Entrypoint = e.name]
             d == DecodeBuffer(After(e.rest, 4))
         IN IF e.err # "nil" THEN [err |-> e.err, p |-> q]
            ELSE IF Len(e.rest) < 4 THEN [err |-> "panic", p |-> named]
            ELSE IF Len(After(e.rest, 4)) < Uint32(Next(e.rest, 4))
            THEN [err |-> "ErrShortBuffer", p |-> named]
            ELSE IF d.err # "nil" THEN [err |-> d.err, p |-> named]
            ELSE [err |-> "nil", p |-> [Entrypoint |-> e.name, Value |-> d.prim]]

(***************************************************************************)
(* Entrypoint routing: properties                                          *)
(***************************************************************************)
IsWrapper(v) == v.OpCode \in {D_LEFT, D_RIGHT} /\ Len(v.Args) = 1

\* number of leading D_LEFT/D_RIGHT nodes of a value
RECURSIVE WrapDepth(_)
WrapDepth(v) == IF IsWrapper(v) THEN 1 + WrapDepth(v.Args[1]) ELSE 0

\* the branch spelled by the first k leading D_LEFT/D_RIGHT nodes
RECURSIVE ValPath(_, _)
ValPath(v, k) ==
    IF k = 0 THEN <<>>
    ELSE (IF v.OpCode = D_LEFT THEN BranchL ELSE BranchR)
             \o ValPath(v.Args[1], k - 1)

\* what is left of a value below its first k leading D_LEFT/D_RIGHT nodes
RECURSIVE ValRest(_, _)
ValRest(v, k) == IF k = 0 THEN v ELSE ValRest(v.Args[1], k - 1)

\* how many leading nodes of v extend prefix: up to the first extension that
\* is a known entrypoint's branch, all of them when there is none
ExtendBy(eps, prefix, v) ==
    LET d == WrapDepth(v)
        m == {k \in 1..d : FindBranch(eps, prefix \o ValPath(v, k)).ok}
    IN IF m = {} THEN d ELSE CHOOSE k \in m : \A j \in m : k <= j

Called == op = "MapEntrypoint"

C2_UnwrapPeelsWrappers ==
    (Called /\ IsValid(p.Value) /\ ret.err # "missing entrypoint") =>
        /\ ret.err = "nil"
        /\ \E k \in 0..WrapDepth(p.Value) :
            /\ ret.prim = ValRest(p.Value, k)
            /\ HasSuffix(ret.ep.Branch, ValPath(p.Value, k))
            /\ p.Entrypoint \in {N_empty, N_root}
                   => ret.ep.Branch = ValPath(p.Value, k)

\* C3: a name other than "default", "root" and "": the entrypoint registered
\* under the name with the value unchanged when the name is known; otherwise
\* the entrypoint at the named branch extended by the value's leading
\* D_LEFT/D_RIGHT nodes, those nodes peeled; an error, and no entrypoint,
\* whenever neither lookup matches.
C3_NamedRouting ==
    (Called /\ p.Entrypoint \notin {N_default, N_root, N_empty}) =>
        LET eps == Entrypoints(typ)
            n == FindName(eps, p.Entrypoint)
            prefix == SearchEntrypointName(typ, p.Entrypoint, <<>>)
            k == ExtendBy(eps, prefix, p.Value)
            f == FindBranch(eps, prefix \o ValPath(p.Value, k))
        IN IF n.ok
           THEN ret = [ep |-> n.ep, prim |-> p.Value, err |-> "nil"]
           ELSE IF prefix # <<>> /\ f.ok
           THEN ret = [ep |-> f.ep, prim |-> ValRest(p.Value, k), err |-> "nil"]
           ELSE /\ ret.err = "missing entrypoint"
                /\ ret.ep = ZeroEntrypoint

\* a call by the name of an or-branch, rebased onto an entrypoint below it
C3_Witness ==
    /\ Called
    /\ p.Entrypoint = N_c
    /\ ~FindName(Entrypoints(typ), N_c).ok
    /\ ret.err = "nil"
    /\ HasPrefix(ret.ep.Branch, SearchEntrypointName(typ, N_c, <<>>))
    /\ Len(ret.ep.Branch) = 4
    /\ p.Value \in {Left(ret.prim), Right(ret.prim)}

\* where a "default" call goes when the value's leading nodes extend the
\* %default path by k nodes
DefaultRouted(k) ==
    LET eps == Entrypoints(typ)
        prefix == SearchEntrypointName(typ, N_default, <<>>)
        branch == IF k < 0 THEN <<>> ELSE prefix \o ValPath(p.Value, k)
        f == FindBranch(eps, branch)
    IN IF f.ok
       THEN ret = [ep |-> f.ep,
                   prim |-> ValRest(p.Value, IF k < 0 THEN 0 ELSE k),
                   err |-> "nil"]
       ELSE ret = [ep |-> FindId(eps, 0).ep, prim |-> p.Value, err |-> "nil"]

DefaultExtend ==
    ExtendBy(Entrypoints(typ), SearchEntrypointName(typ, N_default, <<>>),
             p.Value)

LongName(n) == [i \in 1..n |-> 97]

BinNames ==
    {N_empty, N_default, N_root, N_do, N_set_delegate, N_remove_delegate,
     N_mint, LongName(LongNameLen - 1), LongName(LongNameLen)}

Anno_a == <<37, 97>>

BinValues ==
    {Unit, WithAnno(Unit, <<Anno_a>>), NewInt(42), NewInt(0 - 200),
     NewString(<<97, 98, 99>>), NewBytes(<<5, 0>>), Left(Unit),
     NewCode2(D_PAIR, NewInt(1), Unit), NewSeq(<<NewInt(7), Unit>>)}

ZeroParameters == [Entrypoint |-> N_empty, Value |-> ZeroPrim]

BinReceivers ==
    [Entrypoint : BinNames, Value : BinValues] \cup {ZeroParameters}

Prefixes(b) == {SubSeq(b, 1, k) : k \in 0..Len(b)}

\* what UnmarshalBinary is fed: every truncation of the encodings of a few
\* envelopes, and encodings with a wrong first byte, entrypoint tag, data
\* size or shape tag
BinInputs ==
    UNION {Prefixes(MarshalBinary(q).out) :
              q \in [Entrypoint : {N_empty, N_default, N_root, N_mint},
                     Value : BinValues]}
        \cup {<<7, 0, 0, 0, 0, 2, 3, 11>>, <<1, 9, 1, 97, 0, 0, 0, 2, 3, 11>>,
              <<1, 0, 0, 0, 0, 9, 3, 11>>, <<1, 0, 0, 0, 0, 1, 77>>,
              <<1, 0, 0, 0, 0, 0, 3, 11>>, <<1, 0, 0, 0, 0, 2, 3, 11, 99>>}

InitBin ==
    /\ p \in BinReceivers
    /\ old = p
    /\ typ = ZeroType
    /\ op = "init"
    /\ arg = <<>>
    /\ ret = NoRet

DoMarshalBinary ==
    /\ op' = "MarshalBinary"
    /\ ret' = MarshalBinary(p)
    /\ old' = p
    /\ arg' = <<>>
    /\ UNCHANGED <<p, typ>>

DoUnmarshalBinary ==
    \E data \in BinInputs :
        /\ op' = "UnmarshalBinary"
        /\ arg' = data
        /\ ret' = [err |-> UnmarshalBinary(p, data).err]
        /\ p' = UnmarshalBinary(p, data).p
        /\ old' = p
        /\ UNCHANGED typ

NextBin == DoMarshalBinary \/ DoUnmarshalBinary

SpecBin == InitBin /\ [][NextBin]_vars

(***************************************************************************)
(* Binary codec: properties                                                *)
(***************************************************************************)
Marshalled == op = "MarshalBinary"

IsUnit(v) == v.Type = "PrimNullary" /\ v.OpCode = D_UNIT

WellKnown ==
    {N_empty, N_default, N_root, N_do, N_set_delegate, N_remove_delegate}

\* C5: the empty entrypoint and "default" with a D_UNIT value are the same in
\* the binary encoding: with a D_UNIT value MarshalBinary returns the single
\* byte 0x00 for both.
C5_ShortFormForDefault ==
    (Marshalled /\ IsUnit(p.Value) /\ p.Entrypoint \in {N_empty, N_default}) =>
        ret = [err |-> "nil", out |-> <<0>>]

\* the entrypoint byte of the table in the envelope's binary format
EntrypointTag(name) ==
    CASE name \in {N_empty, N_default} -> 0
      [] name = N_root -> 1
      [] name = N_do -> 2
      [] name = N_set_delegate -> 3
      [] name = N_remove_delegate -> 4
      [] OTHER -> 255

\* C6: an envelope not encoded in the short form is 0x01, the entrypoint
\* byte (0xFF, a length byte and the name for a custom name), a big-endian
\* u32 that is exactly the number of bytes of the encoded value, and the
\* encoded value up to the end of the output.
C6_LongFormLayout ==
    (Marshalled /\ ret.err = "nil") =>
        LET out == ret.out
            name == p.Entrypoint
            hdr == IF name \in WellKnown THEN 2 ELSE 3 + Len(name)
        IN IF out = <<0>>
           THEN name = N_empty /\ p.Value.OpCode = D_UNIT
           ELSE /\ Len(out) >= hdr + 4
                /\ out[1] = 1
                /\ out[2] = EntrypointTag(name)
                /\ name \notin WellKnown =>
                       /\ SubSeq(out, 4, 3 + Len(name)) = name
                       /\ Len(name) <= 255 => out[3] = Len(name)
                /\ Uint32(SubSeq(out, hdr + 1, hdr + 4)) = Len(out) - hdr - 4
                /\ SubSeq(out, hdr + 5, Len(out)) = EncodePrim(p.Value)
                /\ DecodeBuffer(SubSeq(out, hdr + 5, Len(out))) =
                       [err |-> "nil", prim |-> p.Value, rest |-> <<>>]

\* the envelope {"mint", 42} encoded as 01 FF 04 6D 69 6E 74 00 00 00 02 00 2A
C6_Witness ==
    /\ Marshalled
    /\ p = [Entrypoint |-> N_mint, Value |-> NewInt(42)]
    /\ ret = [err |-> "nil",
              out |-> <<1, 255, 4, 109, 105, 110, 116, 0, 0, 0, 2, 0, 42>>]

\* C7: the length byte after 0xFF is the number of name bytes that follow;
\* no name longer than 255 bytes is encoded with a length byte that wrapped
\* around modulo 256.
C7_NameLengthByte ==
    (Marshalled /\ p.Entrypoint \notin WellKnown /\ ret.err = "nil") =>
        /\ Len(p.Entrypoint) <= 255
        /\ ret.out[3] = Len(p.Entrypoint)

\* C8: UnmarshalBinary never panics: every byte slice, the empty one and the
\* ones cut inside the entrypoint tag, the name block, the u32 length or the
\* value included, gets an error back (ErrShortBuffer for a cut one).
C8_UnmarshalNeverPanics ==
    op = "UnmarshalBinary" =>
        /\ ret.err # "panic"
        /\ (\E q \in BinReceivers :
                /\ MarshalBinary(q).err = "nil"
                /\ arg \in Prefixes(MarshalBinary(q).out)
                /\ arg # MarshalBinary(q).out) => ret.err = "ErrShortBuffer"

(***************************************************************************)
(* JSON codec of Prim                                                      *)
(***************************************************************************)
\* a JSON document: a string, an array of documents, or an object whose
\* members are <<key, document>> pairs in order
JStr(bytes) == [k |-> "string", s |-> bytes, items |-> <<>>]
JArr(items) == [k |-> "array", s |-> <<>>, items |-> items]
JObj(members) == [k |-> "object", s |-> <<>>, items |-> members]

HasKey(doc, key) ==
    doc.k = "object" /\ \E i \in 1..Len(doc.items) : doc.items[i][1] = key

Member(doc, key) ==
    doc.items[CHOOSE i \in 1..Len(doc.items) : doc.items[i][1] = key][2]

\* decimal digits of an integer and back
RECURSIVE Digits(_)
Digits(n) ==
    IF n < 10 THEN <<48 + n>> ELSE Digits(n \div 10) \o <<48 + (n % 10)>>

Decimal(n) == IF n < 0 THEN <<45>> \o Digits(0 - n) ELSE Digits(n)

IsDigits(b) == b # <<>> /\ \A i \in 1..Len(b) : b[i] \in 48..57

RECURSIVE DigitsValue(_)
DigitsValue(b) ==
    IF b = <<>> THEN 0
    ELSE DigitsValue(SubSeq(b, 1, Len(b) - 1)) * 10 + (b[Len(b)] - 48)

ParseDecimal(b) ==
    IF b # <<>> /\ Head(b) = 45
    THEN [ok |-> IsDigits(Tail(b)), val |-> 0 - DigitsValue(Tail(b))]
    ELSE [ok |-> IsDigits(b), val |-> DigitsValue(b)]

\* lowercase hex of a byte string and back
HexDigit(d) == IF d < 10 THEN 48 + d ELSE 87 + d

HexString(b) ==
    [i \in 1..(2 * Len(b)) |->
        IF i % 2 = 1 THEN HexDigit(b[(i + 1) \div 2] \div 16)
        ELSE HexDigit(b[i \div 2] % 16)]

IsHexDigit(c) == c \in 48..57 \/ c \in 97..102

HexValue(c) == IF c <= 57 THEN c - 48 ELSE c - 87

ParseHex(h) ==
    [ok |-> Len(h) % 2 = 0 /\ \A i \in 1..Len(h) : IsHexDigit(h[i]),
     val |-> [i \in 1..(Len(h) \div 2) |->
                 HexValue(h[2 * i - 1]) * 16 + HexValue(h[2 * i])]]

\* the canonical textual names of the data opcodes
OpName(oc) ==
    CASE oc = D_UNIT -> <<85, 110, 105, 116>>
      [] oc = D_LEFT -> <<76, 101, 102, 116>>
      [] oc = D_RIGHT -> <<82, 105, 103, 104, 116>>
      [] oc = D_PAIR -> <<80, 97, 105, 114>>
      [] oc = D_SOME -> <<83, 111, 109, 101>>
      [] oc = D_NONE -> <<78, 111, 110, 101>>
      [] oc = D_ELT -> <<69, 108, 116>>
      [] OTHER -> <<63>>

DataOpCodes == {D_UNIT, D_LEFT, D_RIGHT, D_PAIR, D_SOME, D_NONE, D_ELT}

\* Prim.MarshalJSON for a valid tree
RECURSIVE PrimJSON(_)
PrimJSON(node) ==
    LET args == [i \in 1..Len(node.Args) |-> PrimJSON(node.Args[i])]
        annots == [i \in 1..Len(node.Anno) |-> JStr(node.Anno[i])]
    IN CASE node.Type = "PrimInt" -> JObj(<< <<"int", JStr(Decimal(node.Int[1]))>> >>)
         [] node.Type = "PrimString" -> JObj(<< <<"string", JStr(node.Str)>> >>)
         [] node.Type = "PrimBytes" ->
                JObj(<< <<"bytes", JStr(HexString(node.Str))>> >>)
         [] node.Type = "PrimSequence" -> JArr(args)
         [] OTHER ->
                JObj(<< <<"prim", JStr(OpName(node.OpCode))>> >>
                     \o (IF args = <<>> THEN <<>> ELSE << <<"args", JArr(args)>> >>)
                     \o (IF annots = <<>> THEN <<>>
                         ELSE << <<"annots", JArr(annots)>> >>))

JSONErr(e) == [err |-> e, prim |-> ZeroPrim]

ShapeOf(n) ==
    CASE n = 0 -> "PrimNullary"
      [] n = 1 -> "PrimUnary"
      [] n = 2 -> "PrimBinary"
      [] OTHER -> "PrimVariadic"

\* Prim.UnmarshalJSON: the tree a document spells
RECURSIVE ParsePrim(_)
ParsePrim(doc) ==
    LET parsed(items) == [i \in 1..Len(items) |-> ParsePrim(items[i])]
        failed(ps) == \E i \in 1..Len(ps) : ps[i].err # "nil"
        prims(ps) == [i \in 1..Len(ps) |-> ps[i].prim]
    IN CASE doc.k = "array" ->
                IF failed(parsed(doc.items)) THEN JSONErr("invalid prim")
                ELSE [err |-> "nil", prim |-> NewSeq(prims(parsed(doc.items)))]
         [] HasKey(doc, "int") ->
                IF Member(doc, "int").k = "string"
                       /\ ParseDecimal(Member(doc, "int").s).ok
                THEN [err |-> "nil",
                      prim |-> NewInt(ParseDecimal(Member(doc, "int").s).val)]
                ELSE JSONErr("ErrMalformedInt")
         [] HasKey(doc, "string") ->
                IF Member(doc, "string").k = "string"
                THEN [err |-> "nil", prim |-> NewString(Member(doc, "string").s)]
                ELSE JSONErr("invalid prim")
         [] HasKey(doc, "bytes") ->
                IF Member(doc, "bytes").k = "string"
                       /\ ParseHex(Member(doc, "bytes").s).ok
                THEN [err |-> "nil",
                      prim |-> NewBytes(ParseHex(Member(doc, "bytes").s).val)]
                ELSE JSONErr("invalid prim")
         [] HasKey(doc, "prim") ->
                LET name == Member(doc, "prim")
                    args == IF HasKey(doc, "args") /\ Member(doc, "args").k = "array"
                            THEN parsed(Member(doc, "args").items) ELSE <<>>
                    annots == IF HasKey(doc, "annots")
                                     /\ Member(doc, "annots").k = "array"
                              THEN [i \in 1..Len(Member(doc, "annots").items) |->
                                       Member(doc, "annots").items[i].s]
                              ELSE <<>>
                IN IF name.k # "string"
                          \/ ~\E oc \in DataOpCodes : OpName(oc) = name.s
                   THEN JSONErr("ErrUnknownOpCode")
                   ELSE IF failed(args) THEN JSONErr("invalid prim")
                   ELSE [err |-> "nil",
                         prim |-> WithAnno(
                             MkPrim(ShapeOf(Len(args)),
                                    CHOOSE oc \in DataOpCodes : OpName(oc) = name.s,
                                    prims(args), <<>>, <<>>),
                             annots)]
         [] OTHER -> JSONErr("invalid prim")

(***************************************************************************)
(* Parameters: JSON codec                                                  *)
(***************************************************************************)
\* json.Marshal of the value: Prim.MarshalJSON, an error for an invalid tree
MarshalPrim(node) ==
    IF AllValid(node) THEN [err |-> "nil", out |-> PrimJSON(node)]
    ELSE [err |-> "invalid prim", out |-> JArr(<<>>)]

\* Parameters.MarshalJSON with the value emitted alone for every "default"
MarshalJSON_AnyDefault(q) ==
    LET v == MarshalPrim(q.Value)
    IN IF v.err # "nil" THEN v
       ELSE IF q.Entrypoint = N_empty \/ q.Entrypoint = N_default THEN v
       ELSE [err |-> "nil",
             out |-> JObj(<< <<"entrypoint", JStr(q.Entrypoint)>>,
                             <<"value", v.out>> >>)]

MarshalJSON(q) ==
    LET v == MarshalPrim(q.Value)
    IN IF v.err # "nil" THEN v
       ELSE IF q.Entrypoint = N_empty
                  \/ (q.Entrypoint = N_default /\ q.Value.OpCode = D_UNIT)
       THEN v
       ELSE [err |-> "nil",
             out |-> JObj(<< <<"entrypoint", JStr(q.Entrypoint)>>,
                             <<"value", v.out>> >>)]

\* json.Unmarshal(data, alias(p)): the members "entrypoint" and "value" of an
\* object are stored in order, other members are skipped, the first error
\* ends the decoding
RECURSIVE StoreMembers(_, _)
StoreMembers(q, members) ==
    IF members = <<>> THEN [err |-> "nil", p |-> q]
    ELSE LET key == Head(members)[1]
             val == Head(members)[2]
             v == ParsePrim(val)
         IN IF key = "entrypoint"
            THEN IF val.k # "string" THEN [err |-> "UnmarshalTypeError", p |-> q]
                 ELSE StoreMembers([q EXCEPT !.Entrypoint = val.s], Tail(members))
            ELSE IF key = "value"
            THEN IF v.err # "nil" THEN [err |-> v.err, p |-> q]
                 ELSE StoreMembers([q EXCEPT !.Value = v.prim], Tail(members))
            ELSE StoreMembers(q, Tail(members))

UnmarshalAlias(q, doc) ==
    IF doc.k # "object" THEN [err |-> "UnmarshalTypeError", p |-> q]
    ELSE StoreMembers(q, doc.items)

\* json.Unmarshal(data, &p.Value)
UnmarshalValue(q, doc) ==
    LET v == ParsePrim(doc)
    IN IF v.err # "nil" THEN [err |-> v.err, p |-> q]
       ELSE [err |-> "nil", p |-> [q EXCEPT !.Value = v.prim]]

\* the text handed in: nothing at all, or a document, which white space may
\* precede
NoData == [text |-> "empty", doc |-> JArr(<<>>)]
Text(doc) == [text |-> "doc", doc |-> doc]
Spaced(doc) == [text |-> "spaced", doc |-> doc]

\* data[0] == '['
StartsWithBracket(data) == data.text = "doc" /\ data.doc.k = "array"

\* Parameters.UnmarshalJSON: the error and the receiver afterwards
UnmarshalJSON(q, data) ==
    LET a == UnmarshalAlias(q, data.doc)
    IN IF data.text = "empty" THEN [err |-> "nil", p |-> q]
       ELSE IF StartsWithBracket(data) THEN UnmarshalValue(q, data.doc)
       ELSE IF a.err # "nil" THEN a
       ELSE IF IsValid(a.p.Value) THEN a
       ELSE UnmarshalValue([a.p EXCEPT !.Entrypoint = N_default], data.doc)

(***************************************************************************)
(* JSON codec: MarshalJSON and UnmarshalJSON in any order                  *)
(***************************************************************************)
JSONNames == {N_empty, N_default, N_root, N_mint}

JSONValues ==
    {Unit, WithAnno(Unit, <<Anno_a>>), NewInt(42), NewInt(0 - 200),
     NewString(<<97, 98, 99>>), NewBytes(<<5, 0>>), Left(Unit),
     NewCode2(D_PAIR, NewInt(1), Unit), NewSeq(<<NewInt(7), Unit>>),
     NewSeq(<<>>)}

JSONReceivers ==
    [Entrypoint : JSONNames, Value : JSONValues] \cup {ZeroParameters}

\* the documents handed to UnmarshalJSON: bare values (arrays among them),
\* envelopes, and documents that are neither
JSONDocs ==
    {PrimJSON(v) : v \in JSONValues}
        \cup {JObj(<< <<"entrypoint", JStr(n)>>, <<"value", PrimJSON(v)>> >>) :
                 n \in JSONNames, v \in JSONValues}
        \cup {JObj(<< <<"entrypoint", JStr(N_mint)>> >>),
              JObj(<< <<"value", PrimJSON(Unit)>>, <<"entrypoint", JArr(<<>>)>> >>),
              JObj(<< <<"entrypoint", JStr(N_mint)>>,
                      <<"value", JObj(<< <<"prim", JStr(N_zz)>> >>)>> >>),
              JObj(<< <<"prim", JStr(N_zz)>> >>),
              JObj(<< <<"int", JStr(N_zz)>> >>),
              JStr(N_mint)}

JSONInputs ==
    {NoData} \cup {Text(d) : d \in JSONDocs} \cup {Spaced(d) : d \in JSONDocs}

InitJSON ==
    /\ p \in JSONReceivers
    /\ old = p
    /\ typ = ZeroType
    /\ op = "init"
    /\ arg = NoData
    /\ ret = NoRet

DoMarshalJSON ==
    /\ op' = "MarshalJSON"
    /\ ret' = MarshalJSON(p)
    /\ old' = p
    /\ arg' = NoData
    /\ UNCHANGED <<p, typ>>

DoUnmarshalJSON ==
    \E data \in JSONInputs :
        /\ op' = "UnmarshalJSON"
        /\ arg' = data
        /\ ret' = [err |-> UnmarshalJSON(p, data).err]
        /\ p' = UnmarshalJSON(p, data).p
        /\ old' = p
        /\ UNCHANGED typ

NextJSON == DoMarshalJSON \/ DoUnmarshalJSON

SpecJSON == InitJSON /\ [][NextJSON]_vars

(***************************************************************************)
(* JSON codec: properties                                                  *)
(***************************************************************************)
\* C9: MarshalJSON emits just the value tree exactly when the entrypoint is
\* empty or is "default" with a D_UNIT value, and the object with an
\* "entrypoint" and a "value" member in every other case.
C9_MarshalJSONShape ==
    (op = "MarshalJSON" /\ ret.err = "nil") =>
        IF p.Entrypoint = N_empty
               \/ (p.Entrypoint = N_default /\ p.Value.OpCode = D_UNIT)
        THEN /\ ret.out = PrimJSON(p.Value)
             /\ ~HasKey(ret.out, "entrypoint")
        ELSE /\ ret.out # PrimJSON(p.Value)
             /\ ret.out.k = "object"
             /\ Len(ret.out.items) = 2
             /\ HasKey(ret.out, "entrypoint")
             /\ HasKey(ret.out, "value")
             /\ Member(ret.out, "entrypoint") = JStr(p.Entrypoint)
             /\ Member(ret.out, "value") = PrimJSON(p.Value)

\* "default" with a value that is not D_UNIT, emitted as the object
C9_Witness ==
    /\ op = "MarshalJSON"
    /\ ret.err = "nil"
    /\ p = [Entrypoint |-> N_default, Value |-> NewInt(42)]
    /\ HasKey(ret.out, "entrypoint")
    /\ Member(ret.out, "value") = PrimJSON(NewInt(42))

\* a document that is a value alone: a bare prim object or an array
BareValue(data) ==
    /\ data.text = "doc"
    /\ ~HasKey(data.doc, "entrypoint")
    /\ ~HasKey(data.doc, "value")
    /\ ParsePrim(data.doc).err = "nil"

\* C10: UnmarshalJSON into a new Parameters accepts a bare prim object and
\* an array as the value alone, and the decoded Parameters has the
\* entrypoint "default" in both cases.
C10_BareValueIsDefault ==
    (op = "UnmarshalJSON" /\ old = ZeroParameters /\ BareValue(arg)) =>
        /\ ret.err = "nil"
        /\ p.Value = ParsePrim(arg.doc).prim
        /\ p.Entrypoint = N_default

(***************************************************************************)
(* Value: type opcodes, labels and rendered values                         *)
(***************************************************************************)
\* wire tags of the remaining data and type opcodes
D_FALSE == 3
D_TRUE == 10
T_BOOL == 89
T_CONTRACT == 90
T_INT == 91
T_KEY == 92
T_KEY_HASH == 93
T_LAMBDA == 94
T_LIST == 95
T_MAP == 96
T_BIG_MAP == 97
T_NAT == 98
T_OPTION == 99
T_PAIR == 101
T_SET == 102
T_SIGNATURE == 103
T_STRING == 104
T_BYTES == 105
T_MUTEZ == 106
T_TIMESTAMP == 107
T_OPERATION == 109
T_ADDRESS == 110
T_CHAIN_ID == 116
T_BLS12_381_G1 == 128
T_BLS12_381_G2 == 129
T_BLS12_381_FR == 130
T_SAPLING_STATE == 131
T_SAPLING_TRANSACTION == 132
T_TICKET == 135

\* "@%%@": the label that stands for "no label"
EMPTY_LABEL == <<64, 37, 37, 64>>
RENDER_TYPE_PRIM == 0
RENDER_TYPE_FAIL == 1
RENDER_TYPE_PANIC == 2
\* the deepest level walkTree works on
MaxNesting == 99

L_0 == <<48>>
L_or_0 == <<64, 111, 114, 95, 48>>
L_or_1 == <<64, 111, 114, 95, 49>>
L_memo_size == <<109, 101, 109, 111, 95, 115, 105, 122, 101>>
L_content == <<99, 111, 110, 116, 101, 110, 116>>
L_k == <<107>>
L_l == <<108>>

\* an interface{} value of a rendering: nil, a big integer, a string, a
\* bool, a Prim, a []interface{} (Items with empty keys) or a
\* map[string]interface{} (Items in the order the keys were first set)
MkRendered(kind, int, str, items, prims) ==
    [Kind |-> kind, Int |-> int, Str |-> str, Items |-> items, Prim |-> prims]

RNil == MkRendered("nil", 0, <<>>, <<>>, <<>>)
RInt(n) == MkRendered("int", n, <<>>, <<>>, <<>>)
RStr(s) == MkRendered("string", 0, s, <<>>, <<>>)
RBool(b) == MkRendered("bool", IF b THEN 1 ELSE 0, <<>>, <<>>, <<>>)
RPrim(node) == MkRendered("prim", 0, <<>>, <<>>, <<node>>)
RArr(vals) ==
    MkRendered("array", 0, <<>>,
               [i \in 1..Len(vals) |-> [Key |-> <<>>, Val |-> vals[i]]], <<>>)
RMap(m) == MkRendered("map", 0, <<>>, m, <<>>)

\* make(map[string]interface{}), _, ok := m[key], m[key] and m[key] = v
EmptyMap == <<>>

MapHas(m, key) == \E i \in 1..Len(m) : m[i].Key = key

MapGet(m, key) == m[CHOOSE i \in 1..Len(m) : m[i].Key = key].Val

MapSet(m, key, v) ==
    IF MapHas(m, key)
    THEN [i \in 1..Len(m) |->
            IF m[i].Key = key THEN [Key |-> key, Val |-> v] ELSE m[i]]
    ELSE Append(m, [Key |-> key, Val |-> v])

(***************************************************************************)
(* Prim and Type helpers of the walker                                     *)
(***************************************************************************)
IsSequence(node) == node.Type = "PrimSequence"

IsPair(node) == node.Type \in {"PrimBinary", "PrimVariadic"} /\ node.OpCode = D_PAIR

TypeIsPair(t) == t.OpCode = T_PAIR

\* Prim.IsScalar: a leaf, or a Left/Right/Some around a scalar
RECURSIVE IsScalar(_)
IsScalar(node) ==
    CASE node.Type \in {"PrimInt", "PrimString", "PrimBytes", "PrimNullary"} ->
            node.Anno = <<>> \/ node.Type # "PrimNullary"
      [] node.Type = "PrimUnary" ->
            /\ node.Anno = <<>>
            /\ node.OpCode \in {D_LEFT, D_RIGHT, D_SOME}
            /\ IsScalar(node.Args[1])
      [] OTHER -> FALSE

\* Type.Label: the name of the type's field (else variable) annotation
Label(t) == t.Anno

\* Stack: the next value to pop is the head; Push(a, b, c) pops a first
NewStack(node) == <<node>>

Push(stack, nodes) == nodes \o stack

Peek(stack) == IF stack = <<>> THEN ZeroPrim ELSE Head(stack)

Popped(stack) == IF stack = <<>> THEN <<>> ELSE Tail(stack)

\* Prim.BuildType: a plausible type for an untyped tree, without annotations
RECURSIVE BuildType(_)
BuildType(node) ==
    LET sub == [i \in 1..Len(node.Args) |-> BuildType(node.Args[i])]
        packed(t) == [t EXCEPT !.WasPacked = TRUE]
    IN CASE node.Type = "PrimInt" -> packed(MkType(T_INT, <<>>, <<>>))
         [] node.Type = "PrimString" -> packed(MkType(T_STRING, <<>>, <<>>))
         [] node.Type = "PrimBytes" -> packed(MkType(T_BYTES, <<>>, <<>>))
         [] node.Type = "PrimSequence" ->
                IF node.Args # <<>> /\ \A i \in 1..Len(node.Args) :
                                          node.Args[i].OpCode = D_ELT
                THEN packed(MkType(T_MAP, <<>>, BuildType(node.Args[1]).Args))
                ELSE packed(MkType(T_LIST, <<>>, sub))
         [] node.OpCode = D_ELT -> packed(MkType(T_MAP, <<>>, sub))
         [] node.OpCode = D_PAIR -> packed(MkType(T_PAIR, <<>>, sub))
         [] node.OpCode \in {D_SOME, D_NONE} -> packed(MkType(T_OPTION, <<>>, sub))
         [] node.OpCode \in {D_LEFT, D_RIGHT} ->
                packed(MkType(T_OR, <<>>, IF sub = <<>> THEN <<>>
                                          ELSE <<sub[1], sub[1]>>))
         [] node.OpCode \in {D_TRUE, D_FALSE} -> packed(MkType(T_BOOL, <<>>, <<>>))
         [] OTHER -> packed(MkType(T_UNIT, <<>>, <<>>))

\* Prim.UnfoldPair: the children of a pair, a nested pair being opened where
\* the type has no pair at its place
UnfoldPair(node, t) ==
    LET piece(i) ==
            LET v == node.Args[i]
                tIsPair == i <= Len(t.Args) /\ TypeIsPair(t.Args[i])
            IN IF ~v.WasPacked /\ IsPair(v) /\ ~tIsPair THEN v.Args ELSE <<v>>
        flat[i \in 0..Len(node.Args)] ==
            IF i = 0 THEN <<>> ELSE flat[i - 1] \o piece(i)
    IN flat[Len(node.Args)]

\* Prim.CanUnfold: a pair, or a sequence standing for a comb pair of the type
CanUnfold(node, t) ==
    \/ IsPair(node)
    \/ /\ IsSequence(node)
       /\ Len(node.Args) = Len(t.Args)
       /\ \A i \in 1..Len(node.Args) : node.Args[i].OpCode # D_ELT

\* Prim.Value: the scalar a leaf stands for under a type opcode
Prim_Value(node, oc) ==
    CASE node.Type = "PrimInt" -> IF node.Int = <<>> THEN RNil ELSE RInt(node.Int[1])
      [] node.Type = "PrimString" -> RStr(node.Str)
      [] node.Type = "PrimBytes" -> RStr(HexString(node.Str))
      [] node.Type = "PrimNullary" /\ node.OpCode = D_UNIT -> RNil
      [] node.Type = "PrimNullary" /\ node.OpCode \in {D_TRUE, D_FALSE} ->
            RBool(node.OpCode = D_TRUE)
      [] OTHER -> RPrim(node)

\* NewKey and Key.String: the rendered key of a map entry
NewKey(keyType, node) ==
    CASE node.Type = "PrimInt" /\ node.Int # <<>> ->
            [err |-> "nil", String |-> Decimal(node.Int[1])]
      [] node.Type = "PrimString" -> [err |-> "nil", String |-> node.Str]
      [] node.Type = "PrimBytes" -> [err |-> "nil", String |-> HexString(node.Str)]
      [] OTHER -> [err |-> "micheline: unsupported key type", String |-> <<>>]

\* TicketType: Pair(ticketer address, Pair(value type, amount))
TicketType(t) ==
    MkType(T_PAIR, <<>>,
           <<MkType(T_ADDRESS, <<>>, <<>>),
             MkType(T_PAIR, <<>>, <<t, MkType(T_INT, <<>>, <<>>)>>)>>)

\* Prim.matchOpCode: does a value of this shape fit a type of this opcode
matchOpCode(node, oc) ==
    CASE node.Type = "PrimSequence" ->
            oc \in {T_LIST, T_MAP, T_BIG_MAP, T_SET, T_LAMBDA, T_OR, T_OPTION,
                    T_PAIR, T_SAPLING_STATE, T_TICKET}
      [] node.Type = "PrimInt" ->
            oc \in {T_INT, T_NAT, T_MUTEZ, T_TIMESTAMP, T_BIG_MAP, T_OR,
                    T_OPTION, T_SAPLING_STATE, T_BLS12_381_G1, T_BLS12_381_G2,
                    T_BLS12_381_FR, T_TICKET}
      [] node.Type = "PrimString" ->
            oc \in {T_BYTES, T_STRING, T_ADDRESS, T_CONTRACT, T_KEY_HASH, T_KEY,
                    T_SIGNATURE, T_TIMESTAMP, T_OR, T_CHAIN_ID, T_OPTION,
                    T_TICKET}
      [] node.Type = "PrimBytes" ->
            oc \in {T_BYTES, T_STRING, T_BOOL, T_ADDRESS, T_KEY_HASH, T_KEY,
                    T_CONTRACT, T_SIGNATURE, T_OPERATION, T_LAMBDA, T_OR,
                    T_CHAIN_ID, T_OPTION, T_SAPLING_STATE,
                    T_SAPLING_TRANSACTION, T_BLS12_381_G1, T_BLS12_381_G2,
                    T_BLS12_381_FR, T_TICKET}
      [] OTHER ->
            CASE node.OpCode = D_PAIR ->
                    oc \in {T_PAIR, T_OR, T_LIST, T_OPTION, T_TICKET}
              [] node.OpCode \in {D_SOME, D_NONE} -> oc = T_OPTION
              [] node.OpCode = D_UNIT -> oc \in {T_UNIT, K_PARAMETER}
              [] node.OpCode \in {D_LEFT, D_RIGHT} -> oc = T_OR
              [] OTHER -> TRUE

(***************************************************************************)
(* walkTree                                                                *)
(***************************************************************************)
\* What a walk hands back: the error ("nil" for none; at holds the opcode
\* and the shape a type mismatch names), the mapping and the stack as the
\* walk left them, and two counters kept for the properties: the number of
\* walkTree calls made so far and the deepest level a call worked on.
Walked(err, at, m, stack, g) ==
    [err |-> err, at |-> at, m |-> m, stack |-> stack, g |-> g]

NoWalk == [calls |-> 0, deep |-> 0 - 1]

Entered(g) == [g EXCEPT !.calls = g.calls + 1]

WorkedAt(g, lvl) == [g EXCEPT !.deep = IF lvl > g.deep THEN lvl ELSE g.deep]

ErrMaxNesting == "micheline: max nesting level reached"
ErrTypeMismatch == "micheline: type mismatch"
ErrEltItem == "micheline: unexpected type for Elt item"
ErrEltSequence == "micheline: unexpected type for Elt sequence"
ErrOptionCode == "micheline: unexpected T_OPTION code"
ErrOrBranch == "micheline: unexpected T_OR branch"
ErrIndex == "panic: index out of range"

\* lvl > 99 with the nesting level accepted one deeper
TooDeep_Late(lvl) == lvl > MaxNesting + 1

TooDeep(lvl) == lvl > MaxNesting

\* the check before the label is chosen: is this a type mismatch
Mismatch(t, val) == ~TypeIsPair(t) /\ ~IsSequence(val) /\ ~matchOpCode(val, t.OpCode)

\* the type's label taken before the caller's
ChooseLabel_TypeFirst(m, label, t) ==
    IF Len(Label(t)) > 0 THEN Label(t)
    ELSE IF label = EMPTY_LABEL THEN Decimal(Len(m))
    ELSE label

\* the label a node is emitted under when the caller's label is the sentinel
ChooseLabel(m, label, t) ==
    IF label = EMPTY_LABEL
    THEN IF Len(Label(t)) > 0 THEN Label(t) ELSE Decimal(Len(m))
    ELSE label

NoAt == [oc |-> 0 - 1, shape |-> "", code |-> 0 - 1]

At(t, val) == [oc |-> t.OpCode, shape |-> val.Type, code |-> val.OpCode]

\* Type.GetVarAnnoAny: the name a type's first annotation gives
GetVarAnnoAny(t) == t.Anno

RECURSIVE walkTree(_, _, _, _, _, _)

\* case T_SET: the loop over the elements from the i-th on
RECURSIVE walkSet(_, _, _, _, _, _)
walkSet(arr, i, t, val, lvl, g) ==
    IF i > Len(val.Args) THEN [err |-> "nil", at |-> NoAt, arr |-> arr, g |-> g]
    ELSE IF t.Args = <<>> THEN [err |-> ErrIndex, at |-> NoAt, arr |-> arr, g |-> g]
    ELSE LET v == val.Args[i]
             w == walkTree(EmptyMap, EMPTY_LABEL, t.Args[1], NewStack(v), lvl + 1, g)
         IN IF IsScalar(v) /\ ~IsSequence(v)
            THEN walkSet(Append(arr, Prim_Value(v, t.Args[1].OpCode)), i + 1, t, val, lvl, g)
            ELSE IF w.err # "nil"
            THEN [err |-> w.err, at |-> w.at, arr |-> arr, g |-> w.g]
            ELSE walkSet(Append(arr, RMap(w.m)), i + 1, t, val, lvl, w.g)

\* case T_LIST: the loop over the elements from the i-th on
RECURSIVE walkList(_, _, _, _, _, _)
walkList(arr, i, t, val, lvl, g) ==
    IF i > Len(val.Args) THEN [err |-> "nil", at |-> NoAt, arr |-> arr, g |-> g]
    ELSE IF t.Args = <<>> THEN [err |-> ErrIndex, at |-> NoAt, arr |-> arr, g |-> g]
    ELSE LET v == val.Args[i]
             valType == IF Len(t.Args) > i - 1 THEN t.Args[i] ELSE t.Args[1]
             w == walkTree(EmptyMap, EMPTY_LABEL, valType, NewStack(v), lvl + 1, g)
             lifted == Len(w.m) = 1 /\ MapHas(w.m, L_0)
         IN IF w.err # "nil"
            THEN [err |-> w.err, at |-> w.at, arr |-> arr, g |-> w.g]
            ELSE walkList(Append(arr, IF lifted THEN MapGet(w.m, L_0) ELSE RMap(w.m)),
                          i + 1, t, val, lvl, w.g)

\* case T_MAP, T_BIG_MAP: one Elt walked into mm under its rendered key
walkElt(mm, t, v, lvl, g) ==
    IF Len(t.Args) < 2 \/ Len(v.Args) < 2 THEN Walked(ErrIndex, NoAt, mm, <<>>, g)
    ELSE LET keyType == IF v.Args[1].WasPacked THEN BuildType(v.Args[1])
                        ELSE t.Args[1]
             valType == IF v.Args[2].WasPacked THEN BuildType(v.Args[2])
                        ELSE t.Args[2]
             key == NewKey(keyType, v.Args[1])
         IN IF key.err # "nil" THEN Walked(key.err, NoAt, mm, <<>>, g)
            ELSE walkTree(mm, key.String, valType, NewStack(v.Args[2]), lvl + 1, g)

\* case T_MAP, T_BIG_MAP: the loop over a sequence of Elts from the i-th on
RECURSIVE walkElts(_, _, _, _, _, _)
walkElts(mm, i, t, val, lvl, g) ==
    IF i > Len(val.Args) THEN Walked("nil", NoAt, mm, <<>>, g)
    ELSE IF val.Args[i].OpCode # D_ELT THEN Walked(ErrEltItem, NoAt, mm, <<>>, g)
    ELSE LET w == walkElt(mm, t, val.Args[i], lvl, g)
         IN IF w.err # "nil" THEN w
            ELSE walkElts(w.m, i + 1, t, val, lvl, w.g)

\* case T_PAIR: one walk per type argument from the i-th on, on one stack
RECURSIVE walkArgs(_, _, _, _, _, _)
walkArgs(mm, i, t, stack, lvl, g) ==
    IF i > Len(t.Args) THEN Walked("nil", NoAt, mm, stack, g)
    ELSE LET w == walkTree(mm, EMPTY_LABEL, t.Args[i], stack, lvl + 1, g)
         IN IF w.err # "nil" THEN w
            ELSE walkArgs(w.m, i + 1, t, w.stack, lvl, w.g)

\* case T_MAP, T_BIG_MAP
walkMap(m, label, t, val, stack, lvl, g) ==
    IF t.OpCode = T_BIG_MAP /\ Len(val.Args) = 0
    THEN Walked("nil", NoAt,
                CASE val.Type = "PrimInt" -> MapSet(m, label, Prim_Value(val, T_INT))
                  [] val.Type = "PrimSequence" -> MapSet(m, label, RNil)
                  [] OTHER -> m,
                stack, g)
    ELSE CASE val.Type = "PrimBinary" ->
                LET w == walkElt(EmptyMap, t, val, lvl, g)
                IN IF w.err # "nil" THEN Walked(w.err, w.at, m, stack, w.g)
                   ELSE Walked("nil", NoAt, MapSet(m, label, RMap(w.m)), stack, w.g)
           [] val.Type = "PrimSequence" ->
                LET w == walkElts(EmptyMap, 1, t, val, lvl, g)
                IN IF w.err # "nil" THEN Walked(w.err, w.at, m, stack, w.g)
                   ELSE Walked("nil", NoAt, MapSet(m, label, RMap(w.m)), stack, w.g)
           [] OTHER -> Walked(ErrEltSequence, NoAt, m, stack, g)

\* case T_PAIR with the children always emitted into the parent mapping
walkPair_Flat(m, label, nested, t, val, stack, lvl, g) ==
    walkArgs(m, 1, t,
             IF CanUnfold(val, t) THEN Push(stack, val.Args) ELSE Push(stack, <<val>>),
             lvl, g)

\* case T_PAIR
walkPair(m, label, nested, t, val, stack, lvl, g) ==
    LET mm == IF nested THEN EmptyMap ELSE m
        pushed == IF IsPair(val) /\ ~TypeIsPair(t)
                  THEN Push(stack, UnfoldPair(val, t))
                  ELSE IF CanUnfold(val, t) THEN Push(stack, val.Args)
                  ELSE Push(stack, <<val>>)
        w == walkArgs(mm, 1, t, pushed, lvl, g)
    IN IF w.err # "nil" THEN w
       ELSE IF nested
       THEN Walked("nil", NoAt, MapSet(m, label, RMap(w.m)), w.stack, w.g)
       ELSE w

\* case T_OPTION
walkOption(m, label, t, val, stack, lvl, g) ==
    CASE val.OpCode = D_NONE -> Walked("nil", NoAt, MapSet(m, label, RNil), stack, g)
      [] val.OpCode = D_SOME ->
            IF t.Args = <<>> \/ val.Args = <<>> THEN Walked(ErrIndex, NoAt, m, stack, g)
            ELSE IF IsScalar(val) \/ label = GetVarAnnoAny(t.Args[1])
            THEN LET w == walkTree(m, label, t.Args[1], NewStack(val.Args[1]),
                                   lvl + 1, g)
                 IN Walked(w.err, w.at, w.m, stack, w.g)
            ELSE LET w == walkTree(EmptyMap, EMPTY_LABEL, t.Args[1],
                                   NewStack(val.Args[1]), lvl + 1, g)
                 IN IF w.err # "nil" THEN Walked(w.err, w.at, m, stack, w.g)
                    ELSE Walked("nil", NoAt, MapSet(m, label, RMap(w.m)), stack, w.g)
      [] OTHER -> Walked(ErrOptionCode, NoAt, m, stack, g)

\* case T_OR: what a D_LEFT (side 1) or D_RIGHT (side 2) leaves in mm
walkBranch(side, nested, t, val, lvl, g) ==
    IF Len(t.Args) < side \/ val.Args = <<>> THEN Walked(ErrIndex, NoAt, EmptyMap, <<>>, g)
    ELSE LET w == walkTree(EmptyMap, EMPTY_LABEL, t.Args[side],
                           NewStack(val.Args[1]), lvl + 1, g)
             orKey == IF side = 1 THEN L_or_0 ELSE L_or_1
         IN IF w.err # "nil" \/ nested THEN w
            ELSE IF Len(w.m) = 1
            THEN Walked("nil", NoAt,
                        MapSet(EmptyMap,
                               IF w.m[1].Key = L_0 THEN orKey ELSE w.m[1].Key,
                               w.m[1].Val),
                        <<>>, w.g)
            ELSE Walked("nil", NoAt, MapSet(EmptyMap, orKey, RMap(w.m)), <<>>, w.g)

\* case T_OR
walkOr(m, label, nested, t, val, stack, lvl, g) ==
    IF val.OpCode \notin {D_LEFT, D_RIGHT} THEN Walked(ErrOrBranch, NoAt, m, stack, g)
    ELSE LET w == walkBranch(IF val.OpCode = D_LEFT THEN 1 ELSE 2, nested, t,
                             val, lvl, g)
         IN IF w.err # "nil" THEN Walked(w.err, w.at, m, stack, w.g)
            ELSE IF MapHas(w.m, L_0) /\ Len(w.m) = 1
            THEN Walked("nil", NoAt, MapSet(m, label, MapGet(w.m, L_0)), stack, w.g)
            ELSE Walked("nil", NoAt, MapSet(m, label, RMap(w.m)), stack, w.g)

\* case T_TICKET
walkTicket(m, label, t, val, stack, lvl, g) ==
    IF t.Args = <<>> THEN Walked(ErrIndex, NoAt, m, stack, g)
    ELSE walkTree(m, label, TicketType(t.Args[1]), Push(stack, <<val>>), lvl + 1, g)

\* case T_SAPLING_STATE
walkSapling(m, label, t, val, stack, lvl, g) ==
    IF t.Args = <<>> THEN Walked(ErrIndex, NoAt, m, stack, g)
    ELSE LET w1 == walkTree(EmptyMap, L_memo_size, MkType(T_INT, <<>>, <<>>),
                            NewStack(t.Args[1]), lvl + 1, g)
             w2 == walkTree(w1.m, L_content, BuildType(val), NewStack(val),
                            lvl + 1, w1.g)
         IN IF w1.err # "nil" THEN Walked(w1.err, w1.at, m, stack, w1.g)
            ELSE IF w2.err # "nil" THEN Walked(w2.err, w2.at, m, stack, w2.g)
            ELSE Walked("nil", NoAt, MapSet(m, label, RMap(w2.m)), stack, w2.g)

\* the default case: scalars and whatever no other case takes
walkScalar(m, label, t, val0, stack0, lvl, g) ==
    LET pushed == Push(stack0, val0.Args)
        val == IF IsSequence(val0) THEN Peek(pushed) ELSE val0
        stack == IF IsSequence(val0) THEN Popped(pushed) ELSE stack0
        w == walkTree(EmptyMap, EMPTY_LABEL, t, NewStack(val), lvl + 1, g)
    IN IF IsScalar(val)
       THEN Walked("nil", NoAt, MapSet(m, label, Prim_Value(val, t.OpCode)), stack, g)
       ELSE IF w.err # "nil" THEN Walked(w.err, w.at, m, stack, w.g)
       ELSE Walked("nil", NoAt, MapSet(m, label, RMap(w.m)), stack, w.g)

\* the switch on the type's opcode
walkSwitch(m, label0, t, val, stack, lvl, g) ==
    LET haveTypeLabel == Len(Label(t)) > 0
        haveKeyLabel == label0 # EMPTY_LABEL /\ Len(label0) > 0
        nested == haveTypeLabel \/ haveKeyLabel
        label == ChooseLabel(m, label0, t)
    IN CASE t.OpCode = T_SET ->
                LET a == walkSet(<<>>, 1, t, val, lvl, g)
                IN IF a.err # "nil" THEN Walked(a.err, a.at, m, stack, a.g)
                   ELSE Walked("nil", NoAt, MapSet(m, label, RArr(a.arr)), stack, a.g)
         [] t.OpCode = T_LIST ->
                LET a == walkList(<<>>, 1, t, val, lvl, g)
                IN IF a.err # "nil" THEN Walked(a.err, a.at, m, stack, a.g)
                   ELSE Walked("nil", NoAt, MapSet(m, label, RArr(a.arr)), stack, a.g)
         [] t.OpCode = T_LAMBDA ->
                Walked("nil", NoAt, MapSet(m, label, RPrim(val)), stack, g)
         [] t.OpCode \in {T_MAP, T_BIG_MAP} -> walkMap(m, label, t, val, stack, lvl, g)
         [] t.OpCode = T_PAIR -> walkPair(m, label, nested, t, val, stack, lvl, g)
         [] t.OpCode = T_OPTION -> walkOption(m, label, t, val, stack, lvl, g)
         [] t.OpCode = T_OR -> walkOr(m, label, nested, t, val, stack, lvl, g)
         [] t.OpCode = T_TICKET -> walkTicket(m, label, t, val, stack, lvl, g)
         [] t.OpCode = T_SAPLING_STATE -> walkSapling(m, label, t, val, stack, lvl, g)
         [] OTHER -> walkScalar(m, label, t, val, stack, lvl, g)

\* walkTree(m, label, typ, stack, lvl)
walkTree(m, label, t, stack0, lvl, g) ==
    IF TooDeep(lvl) THEN Walked(ErrMaxNesting, NoAt, m, stack0, Entered(g))
    ELSE LET g1 == WorkedAt(Entered(g), lvl)
             val0 == Peek(stack0)
             unfold == ~val0.WasPacked /\ IsPair(val0) /\ ~TypeIsPair(t)
             unfolded == Push(Popped(stack0), UnfoldPair(val0, t))
             val == IF unfold THEN Peek(unfolded) ELSE val0
             stack == IF unfold THEN Popped(unfolded) ELSE Popped(stack0)
             retype == val.WasPacked /\ (~IsScalar(val) \/ t.OpCode = T_BYTES)
             typ1 == IF retype
                     THEN [BuildType(val) EXCEPT !.WasPacked = TRUE, !.Anno = t.Anno]
                     ELSE t
         IN IF Mismatch(typ1, val)
            THEN Walked(ErrTypeMismatch, At(typ1, val), m, stack, g1)
            ELSE walkSwitch(m, label, typ1, val, stack, lvl, g1)

(***************************************************************************)
(* Value                                                                   *)
(***************************************************************************)
\* NewValue: Type and Value are clones of the arguments; mapped is <<>> for
\* a nil interface and <<r>> when it holds the rendering r
NewValue(t, val) ==
    [Type |-> t, Value |-> val, Render |-> RENDER_TYPE_PRIM, mapped |-> <<>>]

\* Value.Decode: the payload is read from buf by Prim.UnmarshalBinary
Value_Decode(e, buf) ==
    LET d == DecodeBuffer(buf)
    IN IF d.err # "nil" THEN [err |-> d.err, e |-> e]
       ELSE [err |-> "nil", e |-> [e EXCEPT !.Value = d.prim]]

\* Value.FixType
Value_FixType(e) ==
    [e EXCEPT !.Type = [BuildType(e.Value) EXCEPT !.WasPacked = TRUE,
                                                  !.Anno = e.Type.Anno]]

\* what Map stores in mapped after a walk that left m: the mapping, or the
\* value of its only key when that key is "0" (a nil value leaves nil)
Lifted(m) ==
    IF Len(m) = 1 /\ m[1].Key = L_0
    THEN IF m[1].Val = RNil THEN <<>> ELSE <<m[1].Val>>
    ELSE <<RMap(m)>>

Returned(mapped) == IF mapped = <<>> THEN RNil ELSE mapped[1]

\* Value.Map that stores the walk's retyped root as FixType does
Value_Map_Retype(e) ==
    LET f == IF e.Value.WasPacked THEN Value_FixType(e) ELSE e
        w == walkTree(EmptyMap, EMPTY_LABEL, f.Type, NewStack(f.Value), 0, NoWalk)
    IN IF f.mapped # <<>>
       THEN [err |-> "nil", res |-> f.mapped[1], e |-> f, g |-> NoWalk]
       ELSE IF w.err # "nil"
       THEN [err |-> w.err, res |-> RNil, e |-> f, g |-> w.g]
       ELSE [err |-> "nil", res |-> Returned(Lifted(w.m)),
             e |-> [f EXCEPT !.mapped = Lifted(w.m)], g |-> w.g]

\* Value.Map: the error, the result, the receiver afterwards and the
\* counters of the walk it made
Value_Map(e) ==
    LET w == walkTree(EmptyMap, EMPTY_LABEL, e.Type, NewStack(e.Value), 0, NoWalk)
    IN IF e.mapped # <<>>
       THEN [err |-> "nil", res |-> e.mapped[1], e |-> e, g |-> NoWalk]
       ELSE IF w.err # "nil"
       THEN [err |-> w.err, res |-> RNil, e |-> e, g |-> w.g]
       ELSE [err |-> "nil", res |-> Returned(Lifted(w.m)),
             e |-> [e EXCEPT !.mapped = Lifted(w.m)], g |-> w.g]

\* json.Marshal of a rendering
JNull == [k |-> "null", s |-> <<>>, items |-> <<>>]
JNumber(n) == [k |-> "number", s |-> Decimal(n), items |-> <<>>]
JBool(b) == [k |-> IF b THEN "true" ELSE "false", s |-> <<>>, items |-> <<>>]

RECURSIVE RenderedJSON(_)
RenderedJSON(r) ==
    CASE r.Kind = "nil" -> JNull
      [] r.Kind = "int" -> JNumber(r.Int)
      [] r.Kind = "string" -> JStr(r.Str)
      [] r.Kind = "bool" -> JBool(r.Int = 1)
      [] r.Kind = "prim" -> PrimJSON(r.Prim[1])
      [] r.Kind = "array" ->
            JArr([i \in 1..Len(r.Items) |-> RenderedJSON(r.Items[i].Val)])
      [] OTHER ->
            JObj([i \in 1..Len(r.Items) |->
                    <<r.Items[i].Key, RenderedJSON(r.Items[i].Val)>>])

\* the error document of a failed walk (message and type tree left out)
ErrorJSON(e) ==
    JObj(<< <<"error", JObj(<< <<"value", MarshalPrim(e.Value).out>> >>)>> >>)

\* what MarshalJSON makes of r, the outcome of e.Map(): the rendering, or
\* on an error what the policy in e.Render says
RenderOutcome(e, r) ==
    IF r.err = "nil" THEN [err |-> "nil", out |-> RenderedJSON(r.res)]
    ELSE IF r.err = ErrIndex THEN [err |-> "panic", out |-> JNull]
    ELSE CASE e.Render = RENDER_TYPE_FAIL -> [err |-> r.err, out |-> ErrorJSON(e)]
           [] e.Render = RENDER_TYPE_PANIC -> [err |-> "panic", out |-> JNull]
           [] OTHER -> MarshalPrim(e.Value)

\* Value.MarshalJSON with the error returned under every policy
Value_MarshalJSON_Strict(e) ==
    RenderOutcome([e EXCEPT !.Render = RENDER_TYPE_FAIL], Value_Map(e))

\* Value.MarshalJSON (the receiver is a copy, so it keeps nothing)
Value_MarshalJSON(e) == RenderOutcome(e, Value_Map(e))

(***************************************************************************)
(* Value: a receiver under Map, Decode, FixType and MarshalJSON            *)
(***************************************************************************)
\* depth of the deepest option chain walked
MaxChain == 3

TInt == MkType(T_INT, <<>>, <<>>)
TString == MkType(T_STRING, <<>>, <<>>)

\* option(option(... int)) and Some(Some(... 5)), n levels deep
RECURSIVE OptionChain(_)
OptionChain(n) ==
    IF n = 0 THEN TInt ELSE MkType(T_OPTION, <<>>, <<OptionChain(n - 1)>>)

RECURSIVE SomeChain(_)
SomeChain(n) == IF n = 0 THEN NewInt(5) ELSE NewCode1(D_SOME, SomeChain(n - 1))

ChainDepths == 0..MaxChain

\* a tree as Unpack leaves it: every node marked
RECURSIVE Unpacked(_)
Unpacked(node) ==
    [node EXCEPT !.WasPacked = TRUE,
                 !.Args = [i \in 1..Len(node.Args) |-> Unpacked(node.Args[i])]]

Pair(a, b) == NewCode2(D_PAIR, a, b)
Elt(k, v) == NewCode2(D_ELT, k, v)

ValueTypes ==
    {TInt, MkType(T_INT, N_a, <<>>), MkType(T_UNIT, <<>>, <<>>),
     MkType(T_BYTES, <<>>, <<>>),
     MkType(T_OPTION, <<>>, <<TInt>>),
     MkType(T_PAIR, <<>>, <<MkType(T_INT, N_a, <<>>), MkType(T_STRING, N_b, <<>>)>>),
     MkType(T_PAIR, N_c, <<TInt, TString>>),
     MkType(T_OR, <<>>, <<MkType(T_INT, N_a, <<>>), TString>>),
     MkType(T_LIST, <<>>, <<TInt>>),
     MkType(T_MAP, <<>>, <<TString, TInt>>),
     MkType(T_BIG_MAP, <<>>, <<TString, TInt>>)}

ValuePayloads ==
    {NewInt(5), NewString(L_k), Unit, NewCode0(D_NONE), NewCode1(D_SOME, NewInt(5)),
     Pair(NewInt(5), NewString(L_k)), Left(NewInt(5)), Right(NewString(L_k)),
     NewSeq(<<>>), NewSeq(<<NewInt(1), NewInt(2)>>),
     Unpacked(NewBytes(<<5, 0>>)), Unpacked(Pair(NewInt(1), NewInt(2)))}

MapTypes ==
    {MkType(T_MAP, <<>>, <<TString, TInt>>), MkType(T_BIG_MAP, N_a, <<TString, TInt>>)}

MapPayloads ==
    {NewSeq(<<Elt(NewString(L_k), NewInt(7)), Elt(NewString(L_l), NewInt(8))>>),
     NewSeq(<<Elt(NewString(L_k), NewInt(7)), NewInt(8)>>),
     Elt(NewString(L_k), NewInt(7))}

Renders == {RENDER_TYPE_PRIM, RENDER_TYPE_FAIL, RENDER_TYPE_PANIC}

ValueReceivers ==
    {[NewValue(t, v) EXCEPT !.Render = r] :
        t \in ValueTypes, v \in ValuePayloads, r \in Renders}
      \cup {[NewValue(t, v) EXCEPT !.Render = r] :
              t \in MapTypes, v \in MapPayloads, r \in Renders}
      \cup {[NewValue(OptionChain(n), SomeChain(k)) EXCEPT !.Render = r] :
              n \in ChainDepths, k \in ChainDepths, r \in Renders}

\* what Decode is fed: encodings of payloads, and a truncated one
DecodeInputs ==
    {EncodeBuffer(v).bytes : v \in {NewInt(7), NewCode0(D_NONE), NewString(L_l),
                                  Pair(NewInt(3), NewString(L_l))}}
        \cup {<<7, 7, 0>>}

InitValue ==
    /\ p \in ValueReceivers
    /\ old = p
    /\ typ = ZeroType
    /\ op = "init"
    /\ arg = <<>>
    /\ ret = NoRet

\* Map has no input: arg keeps what ran just before it and what that returned
Mapped(r) ==
    /\ op' = "Map"
    /\ arg' = [op |-> op, err |-> ret.err,
               res |-> IF op = "Map" THEN ret.res ELSE RNil]
    /\ ret' = [err |-> r.err, res |-> r.res, g |-> r.g]
    /\ p' = r.e
    /\ old' = p
    /\ UNCHANGED typ

DoMap == Mapped(Value_Map(p))

DoDecode ==
    \E buf \in DecodeInputs :
        /\ op' = "Decode"
        /\ arg' = buf
        /\ ret' = [err |-> Value_Decode(p, buf).err]
        /\ p' = Value_Decode(p, buf).e
        /\ old' = p
        /\ UNCHANGED typ

DoFixType ==
    /\ op' = "FixType"
    /\ arg' = <<>>
    /\ ret' = [err |-> "nil"]
    /\ p' = Value_FixType(p)
    /\ old' = p
    /\ UNCHANGED typ

DoValueMarshalJSON ==
    /\ op' = "Value.MarshalJSON"
    /\ arg' = <<>>
    /\ ret' = Value_MarshalJSON(p)
    /\ old' = p
    /\ UNCHANGED <<p, typ>>

NextValue == DoMap \/ DoDecode \/ DoFixType \/ DoValueMarshalJSON

SpecValue == InitValue /\ [][NextValue]_vars

(***************************************************************************)
(* Value: properties                                                       *)
(***************************************************************************)
\* C11: Map called again right after a successful Map on the same Value
\* returns the same result, and returns it from the memo without walking
\* the tree again (no walkTree call), whatever the type and the value,
\* those whose lifted result is null included.
C11_MapMemoized ==
    (op = "Map" /\ arg.op = "Map" /\ arg.err = "nil") =>
        /\ ret.err = "nil"
        /\ ret.res = arg.res
        /\ ret.g.calls = 0

\* C12: a Map call, whether it succeeds or fails, leaves the Value's Type
\* tree, payload tree and Render policy as they were before the call (the
\* retyping of a packed value and the unfolding of pairs work on copies);
\* only the memo cell mapped may differ.
C12_MapKeepsInputs ==
    op = "Map" =>
        /\ p.Type = old.Type
        /\ p.Value = old.Value
        /\ p.Render = old.Render

\* a successful walk that retyped a packed pair under a type that is no pair
C12_Witness ==
    /\ op = "Map"
    /\ ret.err = "nil"
    /\ ret.g.calls > 1
    /\ p.Value.WasPacked
    /\ IsPair(p.Value)
    /\ ~TypeIsPair(p.Type)
    /\ p.Type = old.Type
    /\ p.mapped # old.mapped

(***************************************************************************)
(* walkTree called on its own                                              *)
(***************************************************************************)
\* the levels a call starts at: the first ones and those around the limit
StartLevels == {0, 1, MaxNesting - 1, MaxNesting, MaxNesting + 1}

TypeOpCodes ==
    {K_PARAMETER, T_BOOL, T_CONTRACT, T_INT, T_KEY, T_KEY_HASH, T_LAMBDA, T_LIST,
     T_MAP, T_BIG_MAP, T_NAT, T_OPTION, T_OR, T_PAIR, T_SET, T_SIGNATURE,
     T_STRING, T_BYTES, T_MUTEZ, T_TIMESTAMP, T_UNIT, T_OPERATION, T_ADDRESS,
     T_CHAIN_ID, T_BLS12_381_G1, T_BLS12_381_G2, T_BLS12_381_FR,
     T_SAPLING_STATE, T_SAPLING_TRANSACTION, T_TICKET}

\* the arguments a type of this opcode is given
TypeArgs(oc) ==
    CASE oc \in {T_OPTION, T_LIST, T_SET, T_TICKET, T_CONTRACT} -> <<TInt>>
      [] oc \in {T_MAP, T_BIG_MAP} -> <<TString, TInt>>
      [] oc \in {T_PAIR, T_OR} -> <<MkType(T_INT, N_a, <<>>), TString>>
      [] oc = T_LAMBDA -> <<TInt, TInt>>
      [] oc = T_SAPLING_STATE -> <<NewInt(8)>>
      [] OTHER -> <<>>

WalkTypes ==
    {MkType(oc, a, TypeArgs(oc)) : oc \in TypeOpCodes, a \in {<<>>, N_b}}
        \cup {MkType(T_PAIR, a, <<TInt, MkType(T_PAIR, b, <<TString, TInt>>)>>) :
                a \in {<<>>, N_c}, b \in {<<>>, N_b}}

\* one value of every shape of the compatibility table, scalars below
WalkValues ==
    {NewInt(5), NewString(L_k), NewBytes(<<5, 0>>), Unit, NewCode0(D_NONE),
     NewCode1(D_SOME, NewInt(5)), Left(NewInt(5)), Right(NewString(L_k)),
     Pair(NewInt(5), NewString(L_k)),
     Pair(NewInt(5), Pair(NewString(L_k), NewInt(6))),
     NewSeq(<<NewInt(1), NewInt(2)>>), NewSeq(<<NewInt(5), NewString(L_k)>>)}

WalkLabels == {EMPTY_LABEL, <<>>, L_k}

WalkMaps == {EmptyMap, MapSet(EmptyMap, L_0, RInt(1)), MapSet(EmptyMap, N_b, RInt(1))}

\* Elt sequences are walked under map types and their keys cover the labels
WalkElts ==
    {NewSeq(<<Elt(NewString(L_k), NewInt(7)), Elt(NewString(L_l), NewInt(8))>>),
     NewSeq(<<Elt(NewString(L_k), NewInt(7)), NewInt(8)>>),
     NewSeq(<<Elt(NewString(EMPTY_LABEL), NewInt(7))>>),
     NewSeq(<<Elt(NewInt(3), NewInt(7)), Elt(NewBytes(<<5, 0>>), NewInt(8))>>),
     NewSeq(<<Elt(NewString(<<>>), Pair(NewInt(1), NewInt(2))),
              Elt(NewString(L_k), Pair(NewInt(3), NewInt(4)))>>)}

WalkEltTypes ==
    {MkType(oc, a, <<TString, v>>) :
        oc \in {T_MAP, T_BIG_MAP}, a \in {<<>>, N_b},
        v \in {TInt, MkType(T_PAIR, <<>>, <<TInt, TInt>>)}}

WalkCalls ==
    [m : WalkMaps, label : WalkLabels, stack : {NewStack(v) : v \in WalkValues},
     lvl : StartLevels, t : WalkTypes]
      \cup [m : WalkMaps, label : WalkLabels, stack : {NewStack(v) : v \in WalkElts},
            lvl : StartLevels \ {0, 1}, t : WalkTypes]
      \cup [m : WalkMaps, label : WalkLabels, stack : {NewStack(v) : v \in WalkElts},
            lvl : StartLevels, t : WalkEltTypes]

InitWalk ==
    /\ arg \in WalkCalls
    /\ typ = arg.t
    /\ p = ZeroParameters
    /\ old = p
    /\ op = "init"
    /\ ret = NoRet

DoWalkTree ==
    /\ op = "init"
    /\ op' = "walkTree"
    /\ ret' = walkTree(arg.m, arg.label, typ, arg.stack, arg.lvl, NoWalk)
    /\ UNCHANGED <<p, old, typ, arg>>

NextWalk == DoWalkTree

SpecWalk == InitWalk /\ [][NextWalk]_vars

(***************************************************************************)
(* walkTree: properties                                                    *)
(***************************************************************************)
WalkCalled == op = "walkTree"

\* the value the call pops
WalkValue == Peek(arg.stack)

\* C13: a call whose level exceeds 99 fails at once with the max-nesting
\* error, having worked on nothing; every descent is a call one level
\* deeper (a Some around an int is walked at the level after its option's),
\* so the deepest level a walk works on is never beyond 99, and the
\* max-nesting error is returned only when a call was made beyond 99.
C13_DepthBound ==
    WalkCalled =>
        /\ arg.lvl > MaxNesting =>
              /\ ret.err = ErrMaxNesting
              /\ ret.g = [calls |-> 1, deep |-> 0 - 1]
              /\ ret.m = arg.m
        /\ ret.g.deep <= MaxNesting
        /\ ret.g.deep < arg.lvl + ret.g.calls
        /\ (arg.lvl <= MaxNesting /\ ret.err = ErrMaxNesting) =>
              ret.g.deep = MaxNesting
        /\ (typ.OpCode = T_OPTION /\ WalkValue = NewCode1(D_SOME, NewInt(5))) =>
              IF arg.lvl < MaxNesting
              THEN ret.err = "nil" /\ ret.g = [calls |-> 2, deep |-> arg.lvl + 1]
              ELSE ret.err = ErrMaxNesting

\* an option walked at level 99: its Some's content would be at level 100
C13_Witness ==
    /\ WalkCalled
    /\ arg.lvl = MaxNesting
    /\ typ.OpCode = T_OPTION
    /\ WalkValue = NewCode1(D_SOME, NewInt(5))
    /\ ret.err = ErrMaxNesting
    /\ ret.g = [calls |-> 2, deep |-> MaxNesting]

\* the rows of the compatibility table: the row of a value, and the type
\* opcodes a row lists
Row(val) ==
    CASE val.Type = "PrimSequence" -> "Sequence"
      [] val.Type = "PrimInt" -> "Int"
      [] val.Type = "PrimString" -> "String"
      [] val.Type = "PrimBytes" -> "Bytes"
      [] val.OpCode = D_PAIR -> "D_PAIR"
      [] val.OpCode \in {D_SOME, D_NONE} -> "D_SOME/D_NONE"
      [] val.OpCode = D_UNIT -> "D_UNIT"
      [] val.OpCode \in {D_LEFT, D_RIGHT} -> "D_LEFT/D_RIGHT"
      [] OTHER -> "none"

T_BLS == {T_BLS12_381_G1, T_BLS12_381_G2, T_BLS12_381_FR}

Listed(row) ==
    CASE row = "Sequence" ->
            {T_LIST, T_MAP, T_BIG_MAP, T_SET, T_LAMBDA, T_OR, T_OPTION, T_PAIR,
             T_SAPLING_STATE, T_TICKET}
      [] row = "Int" ->
            {T_INT, T_NAT, T_MUTEZ, T_TIMESTAMP, T_BIG_MAP, T_OR, T_OPTION,
             T_SAPLING_STATE, T_TICKET} \cup T_BLS
      [] row = "String" ->
            {T_BYTES, T_STRING, T_ADDRESS, T_CONTRACT, T_KEY_HASH, T_KEY,
             T_SIGNATURE, T_TIMESTAMP, T_OR, T_CHAIN_ID, T_OPTION, T_TICKET}
      [] row = "Bytes" ->
            {T_BYTES, T_STRING, T_BOOL, T_ADDRESS, T_KEY_HASH, T_KEY, T_CONTRACT,
             T_SIGNATURE, T_OPERATION, T_LAMBDA, T_OR, T_CHAIN_ID, T_OPTION,
             T_SAPLING_STATE, T_SAPLING_TRANSACTION, T_TICKET} \cup T_BLS
      [] row = "D_PAIR" -> {T_PAIR, T_OR, T_LIST, T_OPTION, T_TICKET}
      [] row = "D_SOME/D_NONE" -> {T_OPTION}
      [] row = "D_UNIT" -> {T_UNIT, K_PARAMETER}
      [] row = "D_LEFT/D_RIGHT" -> {T_OR}
      [] OTHER -> {}

\* C14: a call reports a type mismatch before it descends (in its own call,
\* without a further walkTree call) exactly when the combination of the
\* value's shape and the type's opcode is not listed in the compatibility
\* table.
C14_MismatchPerTable ==
    (WalkCalled /\ arg.lvl <= MaxNesting /\ Row(WalkValue) # "none") =>
        ((ret.err = ErrTypeMismatch /\ ret.g.calls = 1)
            <=> typ.OpCode \notin Listed(Row(WalkValue)))

\* the label the rule gives the node of a call
RuleLabel ==
    IF arg.label # EMPTY_LABEL THEN arg.label
    ELSE IF Len(typ.Anno) > 0 THEN typ.Anno
    ELSE Decimal(Len(arg.m))

\* m2 is m with one key set and nothing else changed
SetsOnly(m, m2, key) ==
    /\ MapHas(m2, key)
    /\ Len(m2) = Len(m) + (IF MapHas(m, key) THEN 0 ELSE 1)
    /\ \A i \in 1..Len(m) : m[i].Key # key => m2[i] = m[i]

\* a pair type (or a ticket, walked as a pair under the caller's label) that
\* emits its children into the parent mapping
FlatPair ==
    \/ typ.OpCode = T_PAIR /\ Len(typ.Anno) = 0 /\ arg.label \in {EMPTY_LABEL, <<>>}
    \/ typ.OpCode = T_TICKET /\ arg.label = <<>>

\* C17: a node is emitted under the caller's label when that is not the
\* EMPTY_LABEL sentinel, else under the type's annotation label when it has
\* one, else under the decimal count of the keys the parent mapping holds;
\* no other key of the parent mapping is touched (pairs that emit their
\* children into the parent mapping have no key of their own).
C17_LabelRule ==
    (WalkCalled /\ ret.err = "nil" /\ ~FlatPair) => SetsOnly(arg.m, ret.m, RuleLabel)

\* an unlabelled int emitted into a mapping of one key, under "1"
C17_Witness ==
    /\ WalkCalled
    /\ ret.err = "nil"
    /\ arg.label = EMPTY_LABEL
    /\ typ = TInt
    /\ Len(arg.m) = 1
    /\ WalkValue = NewInt(5)
    /\ MapGet(ret.m, <<49>>) = RInt(5)

(***************************************************************************)
(* Value: rendering and memo properties                                    *)
(***************************************************************************)
\* what Map gives on the receiver as it is now
MapNow == Value_Map(p)

\* C15: when the walk of the Value fails, MarshalJSON returns the JSON of
\* the raw payload tree and no error under policy PRIM, the walk's error
\* under FAIL, and panics under PANIC; when Map succeeds it returns the JSON
\* of Map's result under every policy.
C15_RenderPolicy ==
    op = "Value.MarshalJSON" =>
        IF MapNow.err = "nil"
        THEN ret = [err |-> "nil", out |-> RenderedJSON(MapNow.res)]
        ELSE CASE p.Render = RENDER_TYPE_PRIM ->
                    ret = [err |-> "nil", out |-> PrimJSON(p.Value)]
               [] p.Render = RENDER_TYPE_FAIL -> ret.err = MapNow.err
               [] p.Render = RENDER_TYPE_PANIC -> ret.err = "panic"

\* a string under an int type with policy PRIM: the raw tree, no error
C15_Witness ==
    /\ op = "Value.MarshalJSON"
    /\ p.Render = RENDER_TYPE_PRIM
    /\ p.Type = TInt
    /\ p.Value = NewString(L_k)
    /\ MapNow.err = ErrTypeMismatch
    /\ ret = [err |-> "nil", out |-> JObj(<< <<"string", JStr(L_k)>> >>)]

\* the rendering of the Value's current type and payload
Rendering(e) == Value_Map([e EXCEPT !.mapped = <<>>])

\* C20: whatever Map, Decode and FixType calls were made on a Value, a
\* successful Map returns the rendering of the Value's current Type and
\* current payload, never one memoized before they were replaced.
C20_MemoConsistent ==
    (op = "Map" /\ ret.err = "nil") =>
        /\ Rendering(p).err = "nil"
        /\ ret.res = Rendering(p).res

(***************************************************************************)
(* walkTree: maps and pairs                                                *)
(***************************************************************************)
\* the Elts of the walked value, when it is a sequence of Elts only
AllElts(val) ==
    /\ IsSequence(val)
    /\ val.Args # <<>>
    /\ \A i \in 1..Len(val.Args) :
          val.Args[i].OpCode = D_ELT /\ Len(val.Args[i].Args) = 2

RenderedKey(elt) == NewKey(TString, elt.Args[1]).String

DistinctKeys(val) ==
    \A i, j \in 1..Len(val.Args) :
        i # j => RenderedKey(val.Args[i]) # RenderedKey(val.Args[j])

\* the rendering of one value walked on its own
WalkedAlone(t, v) ==
    Lifted(walkTree(EmptyMap, EMPTY_LABEL, t, NewStack(v), 0, NoWalk).m)[1]

\* C18: under a T_MAP or T_BIG_MAP type a sequence of Elts with distinct
\* rendered keys is emitted under the node's label as one mapping with
\* exactly one entry per Elt, keyed by the Elt's rendered key and holding
\* the Elt's walked value; a sequence with an element that is no Elt fails.
C18_MapEntries ==
    (WalkCalled /\ arg.lvl <= 1 /\ typ.OpCode \in {T_MAP, T_BIG_MAP}
        /\ IsSequence(WalkValue) /\ WalkValue.Args # <<>>) =>
        IF AllElts(WalkValue)
        THEN DistinctKeys(WalkValue) =>
                /\ ret.err = "nil"
                /\ SetsOnly(arg.m, ret.m, RuleLabel)
                /\ MapGet(ret.m, RuleLabel).Kind = "map"
                /\ LET mm == MapGet(ret.m, RuleLabel).Items
                   IN /\ Len(mm) = Len(WalkValue.Args)
                      /\ \A i \in 1..Len(WalkValue.Args) :
                            /\ MapHas(mm, RenderedKey(WalkValue.Args[i]))
                            /\ MapGet(mm, RenderedKey(WalkValue.Args[i]))
                                 = WalkedAlone(typ.Args[2], WalkValue.Args[i].Args[2])
        ELSE ret.err # "nil"

\* is a type label or a caller label present
HaveLabel == Len(typ.Anno) > 0 \/ (arg.label # EMPTY_LABEL /\ Len(arg.label) > 0)

\* the children of the walked pair emitted into the mapping base, one walk
\* per type argument on the stack the pair's children were pushed on
Children(base) ==
    walkArgs(base, 1, typ, Push(Popped(arg.stack), WalkValue.Args), arg.lvl, NoWalk)

\* what Pair(5, "k") under pair(int %a, string) leaves in the mapping base
FiveAndK(base) ==
    MapSet(MapSet(base, N_a, RInt(5)),
           Decimal(Len(MapSet(base, N_a, RInt(5)))), RStr(L_k))

\* C19: under a T_PAIR type the children of a pair value are pushed onto
\* the stack of the call and walked once per type argument, each walk
\* popping the next one; they are emitted into a fresh mapping stored under
\* the pair's label when a type label or a caller label is present, and
\* into the parent mapping otherwise.
C19_PairEmission ==
    (WalkCalled /\ arg.lvl <= 1 /\ typ.OpCode = T_PAIR /\ IsPair(WalkValue)) =>
        /\ ret.err = Children(EmptyMap).err
        /\ ret.g.calls = 1 + Children(EmptyMap).g.calls
        /\ ret.err = "nil" =>
              /\ ret.stack = Children(EmptyMap).stack
              /\ IF HaveLabel
                 THEN /\ SetsOnly(arg.m, ret.m, RuleLabel)
                      /\ MapGet(ret.m, RuleLabel) = RMap(Children(EmptyMap).m)
                 ELSE ret.m = Children(arg.m).m
        /\ (typ.Args = TypeArgs(T_PAIR)
                /\ WalkValue = Pair(NewInt(5), NewString(L_k))) =>
              /\ ret.err = "nil"
              /\ ret.g.calls = 3
              /\ ret.stack = <<>>
              /\ ret.m = IF HaveLabel
                         THEN MapSet(arg.m, RuleLabel, RMap(FiveAndK(EmptyMap)))
                         ELSE FiveAndK(arg.m)

\* Pair(5, "k") under an unlabelled pair called with the label "k" in a
\* mapping of one key: a nested mapping under "k"
C19_Witness ==
    /\ WalkCalled
    /\ arg.lvl = 0
    /\ arg.label = L_k
    /\ Len(arg.m) = 1
    /\ typ = MkType(T_PAIR, <<>>, TypeArgs(T_PAIR))
    /\ WalkValue = Pair(NewInt(5), NewString(L_k))
    /\ ret.m = MapSet(arg.m, L_k,
                      RMap(<<[Key |-> N_a, Val |-> RInt(5)],
                             [Key |-> <<49>>, Val |-> RStr(L_k)]>>))

(***************************************************************************)
(* Value.Map called by two goroutines, each on its own Value               *)
(*                                                                         *)
(* typ and arg are the Type and the Prim both Values were built from, p    *)
(* the two Values, op each caller's position in Map, ret each caller's     *)
(* local m and what its last call returned, old the caller that moved last *)
(* and the memo cells and source trees it found.                           *)
(***************************************************************************)
Callers == {1, 2}

\* Type.Clone and Prim.Clone: a deep copy, equal to and sharing nothing
\* with the original
Clone(tree) == tree

\* NewValue by both callers from the same Type and Prim
NewValues(t, val) == [i \in Callers |-> NewValue(Clone(t), Clone(val))]

\* a memo cell shared by all Values built from one Prim
MemoCell_PerPrim(i) == 1

\* the Value whose mapped field caller i's Map reads and writes: its receiver
MemoCell(i) == i

NoLocals == [m |-> EmptyMap, err |-> "nil", res |-> RNil]

Moved(i) == [who |-> i, mapped |-> [j \in Callers |-> p[j].mapped],
             Type |-> typ, Value |-> arg]

InitConc ==
    /\ typ \in ValueTypes \cup MapTypes
    /\ arg \in IF typ \in ValueTypes THEN ValuePayloads ELSE MapPayloads
    /\ p = NewValues(typ, arg)
    /\ op = [i \in Callers |-> "call"]
    /\ ret = [i \in Callers |-> NoLocals]
    /\ old = [who |-> 0, mapped |-> [j \in Callers |-> <<>>],
              Type |-> typ, Value |-> arg]

\* if e.mapped != nil { return e.mapped, nil }
MapTest(i) ==
    /\ op[i] = "call"
    /\ IF p[MemoCell(i)].mapped # <<>>
       THEN /\ op' = [op EXCEPT ![i] = "done"]
            /\ ret' = [ret EXCEPT ![i] = [m |-> EmptyMap, err |-> "nil",
                                          res |-> p[MemoCell(i)].mapped[1]]]
       ELSE /\ op' = [op EXCEPT ![i] = "walk"]
            /\ ret' = [ret EXCEPT ![i] = NoLocals]
    /\ old' = Moved(i)
    /\ UNCHANGED <<p, typ, arg>>

\* m := make(map); walkTree on the receiver's own Type and Value
MapWalk(i) ==
    LET w == walkTree(EmptyMap, EMPTY_LABEL, p[i].Type, NewStack(p[i].Value),
                      0, NoWalk)
    IN /\ op[i] = "walk"
       /\ IF w.err # "nil"
          THEN /\ op' = [op EXCEPT ![i] = "done"]
               /\ ret' = [ret EXCEPT ![i] = [m |-> EmptyMap, err |-> w.err,
                                             res |-> RNil]]
          ELSE /\ op' = [op EXCEPT ![i] = "store"]
               /\ ret' = [ret EXCEPT ![i] = [m |-> w.m, err |-> "nil",
                                             res |-> RNil]]
       /\ old' = Moved(i)
       /\ UNCHANGED <<p, typ, arg>>

\* e.mapped = m
MapStore(i) ==
    /\ op[i] = "store"
    /\ p' = [p EXCEPT ![MemoCell(i)].mapped = <<RMap(ret[i].m)>>]
    /\ op' = [op EXCEPT ![i] = "lift"]
    /\ old' = Moved(i)
    /\ UNCHANGED <<ret, typ, arg>>

\* lift scalar values: e.mapped = v for the only key "0"
MapLift(i) ==
    /\ op[i] = "lift"
    /\ p' = [p EXCEPT ![MemoCell(i)].mapped =
                IF Len(ret[i].m) = 1 /\ ret[i].m[1].Key = L_0
                THEN Lifted(ret[i].m) ELSE @]
    /\ op' = [op EXCEPT ![i] = "return"]
    /\ old' = Moved(i)
    /\ UNCHANGED <<ret, typ, arg>>

\* return e.mapped, nil
MapReturn(i) ==
    /\ op[i] = "return"
    /\ ret' = [ret EXCEPT ![i].res = Returned(p[MemoCell(i)].mapped)]
    /\ op' = [op EXCEPT ![i] = "done"]
    /\ old' = Moved(i)
    /\ UNCHANGED <<p, typ, arg>>

\* the caller calls Map on its Value again
MapCall(i) ==
    /\ op[i] = "done"
    /\ op' = [op EXCEPT ![i] = "call"]
    /\ old' = Moved(i)
    /\ UNCHANGED <<p, ret, typ, arg>>

NextConc ==
    \E i \in Callers :
        \/ MapTest(i)
        \/ MapWalk(i)
        \/ MapStore(i)
        \/ MapLift(i)
        \/ MapReturn(i)
        \/ MapCall(i)

SpecConc == InitConc /\ [][NextConc]_vars

\* what Map returns when nothing runs beside it
Sequential == Value_Map(NewValue(typ, arg))

\* C16: under every interleaving of Map calls by two callers on two Values
\* built by NewValue from the same Type and Prim, every call that has
\* returned returned what a sequential run returns, the step a caller just
\* took left the other Value's memo cell as it was, and the source Type and
\* Prim are as they were.
C16_OwnWrapperSafe ==
    /\ \A i \in Callers :
          op[i] = "done" =>
              /\ ret[i].err = Sequential.err
              /\ ret[i].res = Sequential.res
    /\ \A j \in Callers :
          (old.who # 0 /\ j # old.who) => p[j].mapped = old.mapped[j]
    /\ typ = old.Type
    /\ arg = old.Value
    /\ \A i \in Callers : p[i].Type = typ /\ p[i].Value = arg

\* caller 1 has returned a lifted result while caller 2 stands between
\* storing its mapping and lifting it
C16_Witness ==
    /\ op = <<"done", "lift">>
    /\ old.who = 1
    /\ ret[1].err = "nil"
    /\ ret[1].res # RNil
    /\ p[1].mapped = <<ret[1].res>>
    /\ p[2].mapped = <<RMap(ret[2].m)>>
    /\ p[2].mapped # p[1].mapped

(***************************************************************************)
(* Binary codec: round trip and failed decodes                             *)
(***************************************************************************)
\* the entrypoint an encoded envelope is read back with
ReadBack(name) == IF name = N_empty THEN N_default ELSE name

\* C21: for every Parameters with a valid value and an entrypoint name of
\* at most 255 bytes, UnmarshalBinary of what MarshalBinary returned
\* succeeds, whatever the receiver held, and yields the same value and the
\* same entrypoint, the empty entrypoint being read back as "default".
C21_BinaryRoundTrip ==
    (Marshalled /\ IsValid(p.Value) /\ Len(p.Entrypoint) <= 255) =>
        /\ ret.err = "nil"
        /\ \A q \in {ZeroParameters, p} :
              UnmarshalBinary(q, ret.out) =
                  [err |-> "nil",
                   p |-> [Entrypoint |-> ReadBack(p.Entrypoint),
                          Value |-> p.Value]]

\* C23: whenever UnmarshalBinary returns an error, the receiver's Entrypoint
\* and Value are the same as before the call.
C23_FailedDecodeKeepsReceiver ==
    (op = "UnmarshalBinary" /\ ret.err \notin {"nil", "panic"}) =>
        /\ p.Entrypoint = old.Entrypoint
        /\ p.Value = old.Value

(***************************************************************************)
(* Address: the binary codec                                               *)
(*                                                                         *)
(* p is the receiver, an Address [Type, Hash]; old is the receiver before  *)
(* the last call, arg the bytes UnmarshalBinary was given and the call     *)
(* whose output they were, ret what the last call returned.                *)
(***************************************************************************)
AddressTypeInvalid == 0
AddressTypeEd25519 == 1
AddressTypeSecp256k1 == 2
AddressTypeP256 == 3
AddressTypeContract == 4
AddressTypeBlinded == 5
AddressTypeBaker == 6

\* the length of a public key hash
HashLen == 20

AddressType_IsValid(t) == t # AddressTypeInvalid

\* AddressType.HashType().Len(): every address type hashes to 20 bytes
HashTypeLen(t) == IF AddressType_IsValid(t) THEN HashLen ELSE 0

Tag(t) ==
    CASE t = AddressTypeEd25519 -> 0
      [] t = AddressTypeSecp256k1 -> 1
      [] t = AddressTypeP256 -> 2
      [] t = AddressTypeBlinded -> 3
      [] OTHER -> 255

ParseAddressTag(b) ==
    CASE b = 0 -> AddressTypeEd25519
      [] b = 1 -> AddressTypeSecp256k1
      [] b = 2 -> AddressTypeP256
      [] b = 3 -> AddressTypeBlinded
      [] OTHER -> AddressTypeInvalid

Address_IsValid(a) ==
    a.Type # AddressTypeInvalid /\ Len(a.Hash) = HashTypeLen(a.Type)

Equal(a, b) == a.Type = b.Type /\ a.Hash = b.Hash

\* Address.Bytes: 21 bytes for an implicit account, 22 for a contract, nil
\* for the invalid type
Address_Bytes(a) ==
    IF ~AddressType_IsValid(a.Type) THEN <<>>
    ELSE IF a.Type = AddressTypeContract THEN <<1>> \o a.Hash \o <<0>>
    ELSE <<Tag(a.Type)>> \o a.Hash

\* Address.MarshalBinary: the 22 byte form
Address_MarshalBinary(a) ==
    IF ~AddressType_IsValid(a.Type)
    THEN [err |-> "ErrUnknownAddressType", out |-> <<>>]
    ELSE IF a.Type = AddressTypeContract
    THEN [err |-> "nil", out |-> <<1>> \o a.Hash \o <<0>>]
    ELSE [err |-> "nil", out |-> <<0, Tag(a.Type)>> \o a.Hash]

\* copy(a.Hash, b) into a Hash of 20 bytes: made anew when the receiver's
\* has room for fewer (its capacity taken to be its length), else resliced
CopyHash(hash, b) ==
    [i \in 1..HashLen |->
        IF i <= Len(b) THEN b[i] ELSE IF i <= Len(hash) THEN hash[i] ELSE 0]

\* Address.UnmarshalBinary: the error and the receiver afterwards
Address_UnmarshalBinary(a, b) ==
    LET long == Len(b) >= 22 /\ b[1] \in {0, 1}
        t == IF long THEN (IF b[1] = 0 THEN ParseAddressTag(b[2])
                           ELSE AddressTypeContract)
             ELSE ParseAddressTag(b[1])
        h == IF long /\ b[1] = 0 THEN SubSeq(b, 3, 22) ELSE SubSeq(b, 2, 21)
    IN IF Len(b) < 21 THEN [err |-> "invalid binary address length", a |-> a]
       ELSE IF ~AddressType_IsValid(t)
       THEN [err |-> "ErrUnknownAddressType", a |-> [a EXCEPT !.Type = t]]
       ELSE [err |-> "nil", a |-> [Type |-> t, Hash |-> CopyHash(a.Hash, h)]]

AddressTypes ==
    {AddressTypeEd25519, AddressTypeSecp256k1, AddressTypeP256,
     AddressTypeContract, AddressTypeBlinded, AddressTypeBaker}

\* hashes: all zero, all 0xFF, counting, and ones that begin like a prefix
Hashes ==
    {[i \in 1..HashLen |-> 0], [i \in 1..HashLen |-> 255],
     [i \in 1..HashLen |-> i], [i \in 1..HashLen |-> IF i = 1 THEN 1 ELSE 7],
     [i \in 1..HashLen |-> IF i = 1 THEN 0 ELSE 3]}

InvalidAddress == [Type |-> AddressTypeInvalid, Hash |-> <<>>]

Addresses ==
    [Type : AddressTypes, Hash : Hashes]
        \cup {InvalidAddress,
              [Type |-> AddressTypeEd25519, Hash |-> <<1, 2, 3>>]}

\* what UnmarshalBinary is fed besides encodings: too short, an unknown
\* tag, a 22 byte string with another first byte, padding after 22 bytes
AddressInputs ==
    {<<>>, [i \in 1..20 |-> 1], <<9>> \o [i \in 1..20 |-> 1],
     <<2>> \o [i \in 1..21 |-> 4], <<0, 7>> \o [i \in 1..20 |-> 1],
     <<1>> \o [i \in 1..20 |-> 5] \o <<0, 0, 0>>}

InitAddress ==
    /\ p \in Addresses
    /\ old = p
    /\ typ = ZeroType
    /\ op = "init"
    /\ arg = [data |-> <<>>, of |-> "none"]
    /\ ret = [err |-> "none", out |-> <<>>]

DoAddressMarshalBinary ==
    /\ op' = "Address.MarshalBinary"
    /\ ret' = Address_MarshalBinary(p)
    /\ old' = p
    /\ arg' = [data |-> <<>>, of |-> "none"]
    /\ UNCHANGED <<p, typ>>

DoAddressBytes ==
    /\ op' = "Address.Bytes"
    /\ ret' = [err |-> "nil", out |-> Address_Bytes(p)]
    /\ old' = p
    /\ arg' = [data |-> <<>>, of |-> "none"]
    /\ UNCHANGED <<p, typ>>

Unmarshalled(a, b, of) ==
    /\ op' = "Address.UnmarshalBinary"
    /\ arg' = [data |-> b, of |-> of]
    /\ ret' = [err |-> Address_UnmarshalBinary(a, b).err, out |-> <<>>]
    /\ p' = Address_UnmarshalBinary(a, b).a
    /\ old' = p
    /\ UNCHANGED typ

\* the bytes the last call returned, read into the address they came from
\* or into a zero Address
DoAddressUnmarshalOutput ==
    /\ op \in {"Address.MarshalBinary", "Address.Bytes"}
    /\ ret.err = "nil"
    /\ \E a \in {p, InvalidAddress} : Unmarshalled(a, ret.out, op)

DoAddressUnmarshalBinary ==
    \E b \in AddressInputs : Unmarshalled(p, b, "input")

NextAddress ==
    \/ DoAddressMarshalBinary
    \/ DoAddressBytes
    \/ DoAddressUnmarshalOutput
    \/ DoAddressUnmarshalBinary

SpecAddress == InitAddress /\ [][NextAddress]_vars

\* C22: for every valid Address (a valid address type with a 20 byte hash)
\* UnmarshalBinary of what MarshalBinary returned (22 bytes) and of what
\* Bytes returned (21 bytes, 22 for a contract) succeeds and yields an
\* address Equal to the original.
C22_AddressRoundTrip ==
    (op = "Address.UnmarshalBinary" /\ arg.of # "input"
        /\ AddressType_IsValid(old.Type) /\ Len(old.Hash) = HashLen) =>
        /\ Len(arg.data) = IF arg.of = "Address.Bytes"
                              /\ old.Type # AddressTypeContract
                           THEN 21 ELSE 22
        /\ ret.err = "nil"
        /\ Equal(p, old)

(***************************************************************************)
(* Value.Map call by call                                                  *)
(*                                                                         *)
(* The walk of Map as the goroutine runs it: arg is the chain of walkTree  *)
(* calls in progress, the innermost last, each with its type, its stack,   *)
(* its level and the calls its body still has to make; op is where Map     *)
(* stands, ret the error and the number of calls entered so far, p the     *)
(* receiver, old the receiver as Map leaves it once the walk has returned  *)
(* nil.  What a call renders is walkTree's above; here is what decides     *)
(* which calls are made.                                                   *)
(***************************************************************************)
\* one pass of a loop of the body: nothing to call, a call of walkTree on a
\* stack of its own or on the caller's stack, or a failure
Skip == [kind |-> "skip", t |-> ZeroType, v |-> ZeroPrim, shared |-> FALSE, err |-> "nil"]
Fail(e) == [kind |-> "fail", t |-> ZeroType, v |-> ZeroPrim, shared |-> FALSE, err |-> e]
Call(t, v) == [kind |-> "call", t |-> t, v |-> v, shared |-> FALSE, err |-> "nil"]
OnStack(t) == [kind |-> "call", t |-> t, v |-> ZeroPrim, shared |-> TRUE, err |-> "nil"]

\* case T_MAP, T_BIG_MAP: the call for one Elt
EltCall(t, v) ==
    IF Len(t.Args) < 2 \/ Len(v.Args) < 2 THEN Fail(ErrIndex)
    ELSE LET keyType == IF v.Args[1].WasPacked THEN BuildType(v.Args[1])
                        ELSE t.Args[1]
             valType == IF v.Args[2].WasPacked THEN BuildType(v.Args[2])
                        ELSE t.Args[2]
         IN IF NewKey(keyType, v.Args[1]).err # "nil"
            THEN Fail(NewKey(keyType, v.Args[1]).err)
            ELSE Call(valType, v.Args[2])

Calls(stack, kids) == [err |-> "nil", stack |-> stack, kids |-> kids]

\* the switch on the type's opcode: the stack it leaves and the passes of
\* its loops in order
SwitchCalls(t, val, stack) ==
    CASE t.OpCode = T_SET ->
            Calls(stack, [i \in 1..Len(val.Args) |->
                IF t.Args = <<>> THEN Fail(ErrIndex)
                ELSE IF IsScalar(val.Args[i]) /\ ~IsSequence(val.Args[i]) THEN Skip
                ELSE Call(t.Args[1], val.Args[i])])
      [] t.OpCode = T_LIST ->
            Calls(stack, [i \in 1..Len(val.Args) |->
                IF t.Args = <<>> THEN Fail(ErrIndex)
                ELSE Call(IF Len(t.Args) > i - 1 THEN t.Args[i] ELSE t.Args[1],
                          val.Args[i])])
      [] t.OpCode = T_LAMBDA -> Calls(stack, <<>>)
      [] t.OpCode \in {T_MAP, T_BIG_MAP} ->
            IF t.OpCode = T_BIG_MAP /\ Len(val.Args) = 0 THEN Calls(stack, <<>>)
            ELSE CASE val.Type = "PrimBinary" -> Calls(stack, <<EltCall(t, val)>>)
                   [] val.Type = "PrimSequence" ->
                        Calls(stack, [i \in 1..Len(val.Args) |->
                            IF val.Args[i].OpCode # D_ELT THEN Fail(ErrEltItem)
                            ELSE EltCall(t, val.Args[i])])
                   [] OTHER -> Calls(stack, <<Fail(ErrEltSequence)>>)
      [] t.OpCode = T_PAIR ->
            Calls(IF IsPair(val) /\ ~TypeIsPair(t)
                  THEN Push(stack, UnfoldPair(val, t))
                  ELSE IF CanUnfold(val, t) THEN Push(stack, val.Args)
                  ELSE Push(stack, <<val>>),
                  [i \in 1..Len(t.Args) |-> OnStack(t.Args[i])])
      [] t.OpCode = T_OPTION ->
            CASE val.OpCode = D_NONE -> Calls(stack, <<>>)
              [] val.OpCode = D_SOME ->
                    IF t.Args = <<>> \/ val.Args = <<>>
                    THEN Calls(stack, <<Fail(ErrIndex)>>)
                    ELSE Calls(stack, <<Call(t.Args[1], val.Args[1])>>)
              [] OTHER -> Calls(stack, <<Fail(ErrOptionCode)>>)
      [] t.OpCode = T_OR ->
            IF val.OpCode \notin {D_LEFT, D_RIGHT}
            THEN Calls(stack, <<Fail(ErrOrBranch)>>)
            ELSE IF Len(t.Args) < (IF val.OpCode = D_LEFT THEN 1 ELSE 2)
                    \/ val.Args = <<>>
            THEN Calls(stack, <<Fail(ErrIndex)>>)
            ELSE Calls(stack, <<Call(t.Args[IF val.OpCode = D_LEFT THEN 1 ELSE 2],
                                     val.Args[1])>>)
      [] t.OpCode = T_TICKET ->
            IF t.Args = <<>> THEN Calls(stack, <<Fail(ErrIndex)>>)
            ELSE Calls(Push(stack, <<val>>), <<OnStack(TicketType(t.Args[1]))>>)
      [] t.OpCode = T_SAPLING_STATE ->
            IF t.Args = <<>> THEN Calls(stack, <<Fail(ErrIndex)>>)
            ELSE Calls(stack, <<Call(MkType(T_INT, <<>>, <<>>), t.Args[1]),
                                Call(BuildType(val), val)>>)
      [] OTHER ->
            IF IsSequence(val)
            THEN IF IsScalar(Peek(Push(stack, val.Args)))
                 THEN Calls(Popped(Push(stack, val.Args)), <<>>)
                 ELSE Calls(Popped(Push(stack, val.Args)),
                            <<Call(t, Peek(Push(stack, val.Args)))>>)
            ELSE IF IsScalar(val) THEN Calls(stack, <<>>)
            ELSE Calls(stack, <<Call(t, val)>>)

\* walkTree down to its switch: the depth check, the value popped, unfolded
\* and retyped, the mismatch check
BodyCalls(t, stack0, lvl) ==
    IF TooDeep(lvl) THEN [err |-> ErrMaxNesting, stack |-> stack0, kids |-> <<>>]
    ELSE LET val0 == Peek(stack0)
             unfold == ~val0.WasPacked /\ IsPair(val0) /\ ~TypeIsPair(t)
             unfolded == Push(Popped(stack0), UnfoldPair(val0, t))
             val == IF unfold THEN Peek(unfolded) ELSE val0
             stack == IF unfold THEN Popped(unfolded) ELSE Popped(stack0)
             retype == val.WasPacked /\ (~IsScalar(val) \/ t.OpCode = T_BYTES)
             typ1 == IF retype
                     THEN [BuildType(val) EXCEPT !.WasPacked = TRUE, !.Anno = t.Anno]
                     ELSE t
         IN IF Mismatch(typ1, val)
            THEN [err |-> ErrTypeMismatch, stack |-> stack, kids |-> <<>>]
            ELSE SwitchCalls(typ1, val, stack)

\* a call of walkTree that has not run yet
Frame(t, stack, lvl, shared) ==
    [t |-> t, stack |-> stack, lvl |-> lvl, i |-> 0, kids |-> <<>>,
     shared |-> shared]

Top == arg[Len(arg)]

Rest == SubSeq(arg, 1, Len(arg) - 1)

\* an Elt walked under a scalar type: a value that is no scalar under a
\* type that has no case of its own, walked again one level down
Runaway == NewValue(TInt, Elt(NewString(L_k), NewInt(7)))

\* a Some without its argument
Argless == NewValue(MkType(T_OPTION, <<>>, <<TInt>>), NewCode0(D_SOME))

\* the same as the second element of a list
RunawayItem ==
    NewValue(MkType(T_LIST, <<>>, <<TInt>>),
             NewSeq(<<NewInt(1), Elt(NewString(L_k), NewInt(7))>>))

TermReceivers ==
    {v \in ValueReceivers : v.Render = RENDER_TYPE_PRIM}
        \cup {Runaway, RunawayItem, Argless,
              [NewValue(TInt, NewInt(5)) EXCEPT !.mapped = <<RInt(5)>>]}

InitTerm ==
    /\ p \in TermReceivers
    /\ old = IF p \in {Runaway, RunawayItem} THEN p ELSE Value_Map(p).e
    /\ typ = ZeroType
    /\ op = "call"
    /\ arg = <<>>
    /\ ret = [err |-> "nil", calls |-> 0]

\* Map up to its call of walkTree
MapBegin ==
    /\ op = "call"
    /\ IF p.mapped # <<>>
       THEN op' = "returned" /\ arg' = <<>>
       ELSE /\ op' = "walking"
            /\ arg' = <<Frame(p.Type, NewStack(p.Value), 0, FALSE)>>
    /\ UNCHANGED <<p, old, typ, ret>>

\* a call runs down to its switch and finds what it has to call
WalkEnter ==
    /\ op = "walking" /\ arg # <<>> /\ Top.i = 0
    /\ LET b == BodyCalls(Top.t, Top.stack, Top.lvl)
       IN /\ arg' = Append(Rest, [Top EXCEPT !.i = 1, !.stack = b.stack,
                                             !.kids = b.kids])
          /\ ret' = [err |-> b.err, calls |-> ret.calls + 1]
          /\ op' = IF b.err # "nil" THEN "unwinding" ELSE "walking"
    /\ UNCHANGED <<p, old, typ>>

\* the next pass of the body's loop: a call one level down, nothing, or a
\* failure (an index out of range is a panic)
WalkNext ==
    /\ op = "walking" /\ arg # <<>> /\ Top.i >= 1 /\ Top.i <= Len(Top.kids)
    /\ LET kid == Top.kids[Top.i]
       IN CASE kid.kind = "skip" ->
                  /\ arg' = Append(Rest, [Top EXCEPT !.i = Top.i + 1])
                  /\ UNCHANGED <<op, ret>>
            [] kid.kind = "fail" ->
                  /\ op' = IF kid.err = ErrIndex THEN "panic" ELSE "unwinding"
                  /\ ret' = [ret EXCEPT !.err = kid.err]
                  /\ UNCHANGED arg
            [] OTHER ->
                  /\ arg' = Append(arg, Frame(kid.t,
                                              IF kid.shared THEN Top.stack
                                              ELSE NewStack(kid.v),
                                              Top.lvl + 1, kid.shared))
                  /\ UNCHANGED <<op, ret>>
    /\ UNCHANGED <<p, old, typ>>

\* a call returns nil: its caller goes on with its next pass, on the stack
\* as the call left it when the stack was the caller's
WalkReturn ==
    /\ op = "walking" /\ arg # <<>> /\ Top.i > Len(Top.kids)
    /\ arg' = IF Len(arg) = 1 THEN <<>>
              ELSE Append(SubSeq(arg, 1, Len(arg) - 2),
                          [arg[Len(arg) - 1] EXCEPT
                              !.i = @ + 1,
                              !.stack = IF Top.shared THEN Top.stack ELSE @])
    /\ UNCHANGED <<p, old, typ, op, ret>>

\* a call returns the error to its caller
WalkUnwind ==
    /\ op = "unwinding" /\ arg # <<>>
    /\ arg' = Rest
    /\ UNCHANGED <<p, old, typ, op, ret>>

\* Map after walkTree returned nil: the mapping stored, lifted and returned
MapEnd ==
    /\ op = "walking" /\ arg = <<>>
    /\ op' = "returned"
    /\ p' = old
    /\ UNCHANGED <<old, typ, arg, ret>>

\* Map after walkTree returned an error: return nil, err
MapFail ==
    /\ op = "unwinding" /\ arg = <<>>
    /\ op' = "failed"
    /\ UNCHANGED <<p, old, typ, arg, ret>>

NextTerm ==
    \/ MapBegin
    \/ WalkEnter
    \/ WalkNext
    \/ WalkReturn
    \/ WalkUnwind
    \/ MapEnd
    \/ MapFail

\* the goroutine that called Map keeps running
SpecTerm == InitTerm /\ [][NextTerm]_vars /\ WF_vars(NextTerm)

\* every call in progress is one level below its caller, none beyond the
\* level after MaxNesting, and the walk ends: Map returns or panics
WalkLevels ==
    \A k \in 1..Len(arg) : arg[k].lvl = k - 1 /\ arg[k].lvl <= MaxNesting + 1

WalkEnds == <>(op \in {"returned", "failed", "panic"})

\* C24: every walk terminates: for every finite type tree and value tree
\* Map eventually returns a mapping or an error.
C24_MapReturns == <>(op \in {"returned", "failed"})

====
